---- MODULE Spec2Model ----
(***************************************************************************)
(* Model of the partition / retry / aggregate engine of the public comment *)
(* ingestion pipeline:                                                     *)
(*   work-range-calculator  (WorkPlanner)                                  *)
(*   batch-checker          (BatchCoordinator)                             *)
(*   processor              (Worker)                                       *)
(*   combiner               (Aggregator)                                   *)
(* Python's None is modelled as the empty sequence <<>> and a present      *)
(* value v as <<v>>.                                                       *)
(***************************************************************************)
EXTENDS Integers, Sequences, FiniteSets, TLC

VARIABLES
    total_comments,     \* planner input: event['totalComments']
    max_page_size,      \* planner input: max_page_size
    workers_per_batch,  \* planner input: workers_per_batch
    checkpoints,        \* the checkpoint table: (worker_id, page_number) -> checkpoint
    reprocess_items,    \* planner input: reprocess_items (<<>> when None or empty)
    plan,               \* <<>> or <<the planner's return value>>
    chk_event,          \* batch-checker input event
    chk_result,         \* <<>> or <<the batch-checker's return value>>
    wk_event,           \* worker input event
    wk_script,          \* what the source API and the blob store answer during one invocation
    wk_out,             \* <<>> or <<the outcome of the worker invocation>>
    req_responses,      \* what the attempts of one request of the API client receive
    req_out,            \* <<>> or <<how that call of _make_request ended>>
    blobs,              \* the output bucket: a set of [key, body]
    clock,              \* datetime.now() at one-second resolution
    runState,           \* state of one document run
    failCause,          \* why the run is FAILED
    api_rate_limit,     \* os.environ['API_RATE_LIMIT']
    currentBatch,       \* the driver's position in the plan it holds
    batchResults,       \* results of the batch being dispatched (<<>> = still running)
    rlBudget,           \* rate-limit signals the source may still send
    origPlan,           \* history: the first normal-mode plan of the run
    cleanItems,         \* history: (workerId, pageNumber) returned complete and checked
    rlDropped,          \* history: listed records not persisted because of a 429
    rounds,             \* history: reprocessing rounds so far (saturating)
    agg_event,          \* combiner input: the event, the environment and the faults it meets
    agg_outs,           \* the outcomes of the combiner invocations so far, oldest first
    clustering          \* the clustering bucket: a set of [key, body]

plannerVars == <<total_comments, max_page_size, workers_per_batch, checkpoints,
                 reprocess_items, plan>>
checkerVars == <<chk_event, chk_result>>
workerVars == <<wk_event, wk_script, wk_out, req_responses, req_out>>
storeVars == <<blobs, clock>>
runVars == <<runState, failCause, api_rate_limit, currentBatch, batchResults, rlBudget,
             origPlan, cleanItems, rlDropped, rounds>>
aggVars == <<agg_event, agg_outs, clustering>>
vars == <<total_comments, max_page_size, workers_per_batch, checkpoints,
          reprocess_items, plan, chk_event, chk_result,
          wk_event, wk_script, wk_out, req_responses, req_out, blobs, clock,
          runState, failCause, api_rate_limit, currentBatch, batchResults, rlBudget,
          origPlan, cleanItems, rlDropped, rounds,
          agg_event, agg_outs, clustering>>

----------------------------------------------------------------------------
(* Bounds of the model *)

MaxRecords == 22
MaxPageSize == 2
MaxWorkersPerBatch == 2
MaxReprocess == 2
MaxBatchIndex == 2
MaxResults == 3
MaxListed == 2
MaxRateLimits == 2
MaxRounds == MaxRateLimits + 1
MaxShards == 3          \* per-worker shards in the bucket when the combiner starts
MaxCombines == 2        \* successive invocations of the combiner
MaxTicks == 1           \* seconds that pass while a specification runs

(* Keys of the checkpoint table that the model populates: the keys the     *)
(* planner consults for the first pages of set 1 and set 2, and one key    *)
(* that pairs a worker id with a page it is never planned for.            *)
CkptKeys == {<<0, 1>>, <<1, 2>>, <<2, 3>>, <<20, 1>>, <<0, 2>>}
CkptOffsets == {7}
ReprocessChoices == {[workerId |-> 3, pageNumber |-> 5], [workerId |-> 0, pageNumber |-> 1]}

----------------------------------------------------------------------------
(* Helpers for Python built-ins *)

Min(a, b) == IF a <= b THEN a ELSE b
Max(a, b) == IF a >= b THEN a ELSE b

\* math.ceil(a / b) for b > 0
Ceil(a, b) == -((-a) \div b)

RECURSIVE SeqsUpTo(_, _)
SeqsUpTo(S, n) ==
    IF n = 0 THEN {<<>>}
    ELSE LET shorter == SeqsUpTo(S, n - 1)
         IN shorter \cup {Append(s, x) : s \in {t \in shorter : Len(t) = n - 1}, x \in S}

RECURSIVE SumSeq(_)
SumSeq(s) == IF s = <<>> THEN 0 ELSE Head(s) + SumSeq(Tail(s))

RECURSIVE Flatten(_)
Flatten(ss) == IF ss = <<>> THEN <<>> ELSE Head(ss) \o Flatten(Tail(ss))

SeqMap(Op(_), s) == [i \in 1..Len(s) |-> Op(s[i])]

\* the element of a one-element set; Only({F(x) : x \in {e}}) is F(e) with e
\* evaluated once
Only(S) == CHOOSE x \in S : TRUE

----------------------------------------------------------------------------
(* WorkPlanner: src/lambda/work-range-calculator/index.py *)

max_pages_per_set == 20

ReadFailsIgnored(entry) ==
    FALSE

\* table.get_item (or json.loads of the item) raises; an entry of the table
\* carries read_fails only where reads can fail
ReadFails(entry) ==
    "read_fails" \in DOMAIN entry /\ entry.read_fails

\* get_checkpoint: the stored checkpoint of (worker_id, page_number); None
\* when there is no item and when the read raised ('except Exception:
\* return None')
get_checkpoint(store, worker_id, page_number) ==
    IF /\ <<worker_id, page_number>> \in DOMAIN store
       /\ ~ReadFails(store[<<worker_id, page_number>>])
    THEN <<store[<<worker_id, page_number>>]>>
    ELSE <<>>

IsCompletedCheckpointIgnored(checkpoint) ==
    FALSE

\* checkpoint and checkpoint.get('completed', False)
IsCompletedCheckpoint(checkpoint) ==
    checkpoint # <<>> /\ checkpoint[1].completed

ExpectedCommentsFullPage(remaining_comments, page_number, page_size) ==
    page_size

\* expected_comments of one page of a set
ExpectedComments(remaining_comments, page_number, page_size) ==
    Min(page_size, remaining_comments - ((page_number - 1) * page_size))

SkipKeepsWorkerId(current_worker_id) ==
    current_worker_id

\* current_worker_id += 1 on the skip path
SkipAdvancesWorkerId(current_worker_id) ==
    current_worker_id + 1

WorkerRangeWithoutCheckpoint(global_batch_id, current_worker_id, page_number, page_size, expected_comments, current_set, checkpoint) ==
    [batchId          |-> global_batch_id,
     workerId         |-> current_worker_id,
     pageNumber       |-> page_number,
     pageSize         |-> page_size,
     expectedComments |-> expected_comments,
     setNumber        |-> current_set,
     hasCheckpoint    |-> FALSE,
     commentOffset    |-> <<>>,
     isReprocessing   |-> FALSE]

WorkerRangeOfBatch(global_batch_id, current_worker_id, page_number, page_size, expected_comments, current_set, checkpoint) ==
    [batchId          |-> global_batch_id,
     workerId         |-> global_batch_id,
     pageNumber       |-> current_set,
     pageSize         |-> page_size,
     expectedComments |-> expected_comments,
     setNumber        |-> current_set,
     hasCheckpoint    |-> checkpoint # <<>>,
     commentOffset    |-> IF checkpoint # <<>> THEN <<checkpoint[1].comment_offset>> ELSE <<>>,
     isReprocessing   |-> FALSE]

\* the work item emitted for one page in normal mode
WorkerRange(global_batch_id, current_worker_id, page_number, page_size, expected_comments, current_set, checkpoint) ==
    [batchId          |-> global_batch_id,
     workerId         |-> current_worker_id,
     pageNumber       |-> page_number,
     pageSize         |-> page_size,
     expectedComments |-> expected_comments,
     setNumber        |-> current_set,
     hasCheckpoint    |-> checkpoint # <<>>,
     commentOffset    |-> IF checkpoint # <<>> THEN <<checkpoint[1].comment_offset>> ELSE <<>>,
     isReprocessing   |-> FALSE]

ReprocessWorkerRangeSwapped(item, page_size) ==
    [batchId          |-> 0,
     workerId         |-> item.pageNumber,
     pageNumber       |-> item.workerId,
     pageSize         |-> page_size,
     expectedComments |-> page_size,
     setNumber        |-> 1,
     hasCheckpoint    |-> FALSE,
     commentOffset    |-> <<>>,
     isReprocessing   |-> TRUE]

\* the work item emitted for one entry of reprocess_items
ReprocessWorkerRange(item, page_size) ==
    [batchId          |-> 0,
     workerId         |-> item.workerId,
     pageNumber       |-> item.pageNumber,
     pageSize         |-> page_size,
     expectedComments |-> page_size,
     setNumber        |-> 1,
     hasCheckpoint    |-> FALSE,
     commentOffset    |-> <<>>,
     isReprocessing   |-> TRUE]

\* the reprocessing branch of calculate_work_batches
ReprocessPlan(total, page_size, items) ==
    LET reprocess_workers == [k \in 1..Len(items) |-> ReprocessWorkerRange(items[k], page_size)]
    IN [batches         |-> <<[batchId         |-> 0,
                               workers         |-> reprocess_workers,
                               expectedWorkers |-> Len(reprocess_workers),
                               setNumber       |-> 1,
                               isReprocessing  |-> TRUE]>>,
        totalBatches    |-> 1,
        totalWorkers    |-> Len(reprocess_workers),
        workersPerBatch |-> Len(reprocess_workers),
        totalComments   |-> total,
        pageSize        |-> page_size,
        expectedSets    |-> 1,
        commentsPerSet  |-> total,
        isReprocessing  |-> TRUE]

\* for i in range(workers_in_batch): the pages of one batch
\* acc = [batch_workers, current_worker_id]
RECURSIVE WorkerLoop(_, _, _, _, _, _, _, _, _)
WorkerLoop(store, page_size, current_set, remaining_comments, base_page, workers_in_batch, global_batch_id, i, acc) ==
    IF i >= workers_in_batch THEN acc
    ELSE
      LET page_number       == base_page + i
          expected_comments == ExpectedComments(remaining_comments, page_number, page_size)
          checkpoint        == get_checkpoint(store, acc.current_worker_id, page_number)
          next ==
            IF expected_comments > 0
            THEN IF IsCompletedCheckpoint(checkpoint)
                 THEN [acc EXCEPT !.current_worker_id = SkipAdvancesWorkerId(@)]
                 ELSE [batch_workers |->
                          Append(acc.batch_workers,
                                 WorkerRange(global_batch_id, acc.current_worker_id,
                                             page_number, page_size, expected_comments,
                                             current_set, checkpoint)),
                       current_worker_id |-> acc.current_worker_id + 1]
            ELSE acc
      IN Only({WorkerLoop(store, page_size, current_set, remaining_comments, base_page,
                          workers_in_batch, global_batch_id, i + 1, after) :
               after \in {next}})

BatchIdLocal(global_batch_id, local_batch_id) ==
    local_batch_id

\* "batchId": global_batch_id, in the work items and in the batch
BatchId(global_batch_id, local_batch_id) ==
    global_batch_id

BasePageFromZero(local_batch_id, per_batch) ==
    local_batch_id * per_batch

\* base_page = (local_batch_id * workers_per_batch) + 1
BasePage(local_batch_id, per_batch) ==
    (local_batch_id * per_batch) + 1

\* for local_batch_id in range(total_batches_for_set): the batches of one set
\* acc = [batches, current_worker_id, global_batch_id]
RECURSIVE BatchLoop(_, _, _, _, _, _, _, _, _)
BatchLoop(store, page_size, per_batch, current_set, remaining_comments, pages_needed, total_batches_for_set, local_batch_id, acc) ==
    IF local_batch_id >= total_batches_for_set THEN acc
    ELSE
      LET base_page        == BasePage(local_batch_id, per_batch)
          remaining_pages  == pages_needed - (local_batch_id * per_batch)
          workers_in_batch == Min(per_batch, remaining_pages)
          inner == WorkerLoop(store, page_size, current_set, remaining_comments,
                              base_page, workers_in_batch,
                              BatchId(acc.global_batch_id, local_batch_id), 0,
                              [batch_workers |-> <<>>,
                               current_worker_id |-> acc.current_worker_id])
          next ==
            IF inner.batch_workers # <<>>
            THEN [batches |-> Append(acc.batches,
                                     [batchId         |-> BatchId(acc.global_batch_id,
                                                                  local_batch_id),
                                      workers         |-> inner.batch_workers,
                                      expectedWorkers |-> Len(inner.batch_workers),
                                      setNumber       |-> current_set,
                                      isReprocessing  |-> FALSE]),
                  current_worker_id |-> inner.current_worker_id,
                  global_batch_id   |-> acc.global_batch_id + 1]
            ELSE [acc EXCEPT !.current_worker_id = inner.current_worker_id]
      IN Only({BatchLoop(store, page_size, per_batch, current_set, remaining_comments,
                         pages_needed, total_batches_for_set, local_batch_id + 1, after) :
               after \in {next}})

\* for current_set in range(1, total_sets + 1)
RECURSIVE SetLoop(_, _, _, _, _, _, _, _)
SetLoop(store, total, page_size, per_batch, comments_per_set, total_sets, current_set, acc) ==
    IF current_set > total_sets THEN acc
    ELSE
      LET remaining_comments == Min(comments_per_set,
                                    total - ((current_set - 1) * comments_per_set))
          pages_needed == Ceil(remaining_comments, page_size)
          total_batches_for_set == Ceil(pages_needed, per_batch)
      IN Only({SetLoop(store, total, page_size, per_batch, comments_per_set, total_sets,
                       current_set + 1, after) :
               after \in {BatchLoop(store, page_size, per_batch, current_set,
                                    remaining_comments, pages_needed,
                                    total_batches_for_set, 0, acc)}})

CountersCarriedOver ==
    IF plan = <<>>
    THEN [batches |-> <<>>, current_worker_id |-> 0, global_batch_id |-> 0]
    ELSE [batches |-> <<>>, current_worker_id |-> plan[1].totalWorkers,
          global_batch_id |-> plan[1].totalBatches]

\* batches = []; current_worker_id = 0; global_batch_id = 0: locals of the
\* call, set anew on every call
FreshCounters ==
    [batches |-> <<>>, current_worker_id |-> 0, global_batch_id |-> 0]

\* the normal-mode branch of calculate_work_batches
NormalPlan(store, total, per_batch, page_size) ==
    LET comments_per_set == max_pages_per_set * page_size
        total_sets == Ceil(total, comments_per_set)
        final == SetLoop(store, total, page_size, per_batch, comments_per_set,
                         total_sets, 1, FreshCounters)
    IN [batches         |-> final.batches,
        totalBatches    |-> Len(final.batches),
        totalWorkers    |-> final.current_worker_id,
        workersPerBatch |-> per_batch,
        totalComments   |-> total,
        pageSize        |-> page_size,
        expectedSets    |-> total_sets,
        commentsPerSet  |-> comments_per_set,
        isReprocessing  |-> FALSE]

calculate_work_batches(store, total, per_batch, page_size, items) ==
    IF items # <<>> /\ Len(items) > 0
    THEN ReprocessPlan(total, page_size, items)
    ELSE NormalPlan(store, total, per_batch, page_size)

\* all work items of a plan, in emission order
PlanItems(p) == Flatten([b \in 1..Len(p.batches) |-> p.batches[b].workers])

\* calculate_workers_per_batch
calculate_workers_per_batch(apiRateLimit) ==
    Min(4, (apiRateLimit - 50) \div 250)

handler_page_size == 100

\* total_batches_for_set = math.ceil(pages_needed / workers_per_batch) raises
\* ZeroDivisionError in the first set when workers_per_batch is 0
DividesByZero(total, per_batch, page_size, items) ==
    /\ ~(items # <<>> /\ Len(items) > 0)
    /\ per_batch = 0
    /\ Ceil(total, max_pages_per_set * page_size) >= 1

\* lambda_handler of the planner: batch_check is <<>> or <<the checker's result>>
planner_handler(store, total, apiRateLimit, batch_check) ==
    LET items == IF batch_check # <<>> /\ batch_check[1].needsReprocessing
                 THEN (IF batch_check[1].incompleteItems # <<>>
                       THEN batch_check[1].incompleteItems[1] ELSE <<>>)
                 ELSE <<>>
    IN calculate_work_batches(store, total, calculate_workers_per_batch(apiRateLimit),
                              handler_page_size, items)
       @@ [currentBatch |-> 0]

----------------------------------------------------------------------------
(* BatchCoordinator: src/lambda/batch-checker/index.py *)

\* A batch result is [Payload |-> <<payload>>] or [Payload |-> <<>>] (no
\* 'Payload' key); a payload carries isComplete and needsReprocessing as
\* "true", "false" or "absent".

IsIncompleteOnlyIncomplete(payload) ==
    payload.isComplete = "false"

IsIncompleteUnlessCleared(payload) ==
    payload.isComplete = "false" \/ payload.needsReprocessing # "false"

\* payload.get('isComplete') is False or payload.get('needsReprocessing') is True
IsIncomplete(payload) ==
    payload.isComplete = "false" \/ payload.needsReprocessing = "true"

RECURSIVE check_for_incomplete_items(_)
check_for_incomplete_items(batch_results) ==
    IF batch_results = <<>> THEN <<>>
    ELSE LET result == Head(batch_results)
             rest   == check_for_incomplete_items(Tail(batch_results))
         IN IF result.Payload # <<>> /\ IsIncomplete(result.Payload[1])
            THEN <<result.Payload[1]>> \o rest
            ELSE rest

HasMoreBatchesOffByOne(current_batch, total_batches) ==
    current_batch < total_batches

\* has_more_batches = current_batch + 1 < total_batches
HasMoreBatches(current_batch, total_batches) ==
    current_batch + 1 < total_batches

\* lambda_handler of the batch checker; incompleteItems and currentBatch
\* are <<>> when the returned dict has no such key
batch_checker(event) ==
    LET incomplete_items == check_for_incomplete_items(event.batchResults)
    IN IF Len(incomplete_items) > 0
       THEN [hasMoreBatches    |-> TRUE,
             needsReprocessing |-> TRUE,
             incompleteItems   |-> <<incomplete_items>>,
             currentBatch      |-> <<event.currentBatch>>]
       ELSE [hasMoreBatches    |-> HasMoreBatches(event.currentBatch, event.totalBatches),
             needsReprocessing |-> FALSE,
             incompleteItems   |-> <<>>,
             currentBatch      |-> <<>>]

----------------------------------------------------------------------------
(* Worker: src/lambda/processor/index.py *)

\* A response of the source API to one attempt of a request:
\*   "200", "429", "500" (any status other than 200 and 429), or
\*   "HTTPError" (urllib3 raised instead of answering).
Responses == {"200", "429", "500", "HTTPError"}

max_retries == 3

IsRateLimitNever(response) ==
    FALSE

\* if response.status == 429: raise RateLimitReached(...)
IsRateLimit(response) ==
    response = "429"

BackoffWaitConstant(retries) ==
    1

\* wait_time = 2 ** retries; time.sleep(wait_time)
BackoffWait(retries) ==
    2 ^ retries

\* _make_request: the while loop over the attempts of one request.
\* responses[k] is what the k-th attempt receives; the result names how the
\* call ends, the attempts made and the waits slept.
RECURSIVE MakeRequestLoop(_, _, _, _)
MakeRequestLoop(responses, retries, tried, waits) ==
    IF retries >= max_retries
    THEN [outcome |-> "Exception", tried |-> tried, waits |-> waits]
    ELSE LET response == responses[Len(tried) + 1]
             seen     == Append(tried, response)
         IN CASE IsRateLimit(response) ->
                   [outcome |-> "RateLimitReached", tried |-> seen, waits |-> waits]
              [] response = "500" ->
                   [outcome |-> "Exception", tried |-> seen, waits |-> waits]
              [] response = "200" ->
                   [outcome |-> "ok", tried |-> seen, waits |-> waits]
              [] OTHER ->
                   IF retries < max_retries - 1
                   THEN MakeRequestLoop(responses, retries + 1, seen,
                                        Append(waits, BackoffWait(retries)))
                   ELSE [outcome |-> "HTTPError", tried |-> seen, waits |-> waits]

make_request(responses) == MakeRequestLoop(responses, 0, <<>>, <<>>)

\* the entries a request adds to the log of requests of an invocation
RequestLog(target, made) == [k \in 1..Len(made.tried) |-> [target |-> target, response |-> made.tried[k]]]

\* comment_date > last_processed_date bookkeeping of the detail loop
TrackDate(last_processed_date, comment) ==
    IF comment.date # <<>>
    THEN IF last_processed_date = <<>> \/ comment.date[1] > last_processed_date[1]
         THEN comment.date
         ELSE last_processed_date
    ELSE last_processed_date

\* for comment in data: the detail fetches of fetch_comments_page
\* acc = [detailed_comments, last_processed_date, log]
RECURSIVE DetailLoop(_, _, _, _)
DetailLoop(data, details, k, acc) ==
    IF k > Len(data) THEN acc
    ELSE LET made == make_request(details[k])
             logged == [acc EXCEPT !.log = @ \o RequestLog(<<data[k].id>>, made)]
         IN CASE made.outcome = "ok" ->
                   DetailLoop(data, details, k + 1,
                              [logged EXCEPT
                                 !.detailed_comments = Append(@, data[k]),
                                 !.last_processed_date = TrackDate(@, data[k])])
              [] made.outcome = "RateLimitReached" -> logged
              [] OTHER -> DetailLoop(data, details, k + 1, logged)

\* fetch_comments_page; script = [listing, data, details]
fetch_comments_page(script) ==
    LET made == make_request(script.listing)
        log0 == RequestLog("listing", made)
    IN IF made.outcome # "ok"
       THEN [raised |-> made.outcome, detailed_comments |-> <<>>,
             last_processed_date |-> <<>>, log |-> log0]
       ELSE LET acc == DetailLoop(script.data, script.details, 1,
                                  [detailed_comments |-> <<>>,
                                   last_processed_date |-> <<>>,
                                   log |-> log0])
            IN [raised |-> "none", detailed_comments |-> acc.detailed_comments,
                last_processed_date |-> acc.last_processed_date, log |-> acc.log]

\* JSON rendering of a Python bool in a returned dict
BoolJson(b) == IF b THEN "true" ELSE "false"

CommentsKey(worker_id, page, timestamp, rate_limited) ==
    [kind |-> "comments", worker |-> worker_id, page |-> page, ts |-> timestamp,
     rate_limited |-> rate_limited]

AttachmentsKey(worker_id, page, timestamp, rate_limited) ==
    [kind |-> "attachments", worker |-> worker_id, page |-> page, ts |-> timestamp,
     rate_limited |-> rate_limited]

MetadataKey(worker_id, page, timestamp) ==
    [kind |-> "metadata", worker |-> worker_id, page |-> page, ts |-> timestamp,
     rate_limited |-> FALSE]

\* s3_client.put_object: a key holds one body
PutObject(store, key, body) ==
    {o \in store : o.key # key} \cup {[key |-> key, body |-> body]}

RECURSIVE PutAll(_, _)
PutAll(store, puts) ==
    IF puts = <<>> THEN store
    ELSE PutAll(PutObject(store, Head(puts).key, Head(puts).body), Tail(puts))

\* A CSV object: the header line and the data lines, each line the sequence
\* of its cells.
CsvFile(header, rows) == [header |-> header, rows |-> rows]

\* the columns csv.DictWriter is given for a comments shard: the keys of
\* Comment.to_csv_row() (the id and the modification date stand for all five)
CommentColumns == <<"comment_id", "last_modified_date">>

\* the fields of AttachmentMetadata (two of them stand for all nine)
AttachmentColumns == <<"comment_id", "doc_order">>

\* the empty cell: what csv.DictWriter writes for None and for a column the
\* row does not have (restval)
EmptyCell == 0

\* Comment.to_csv_row as csv.DictWriter writes it
to_csv_row(comment) ==
    <<comment.id, IF comment.date = <<>> THEN EmptyCell ELSE comment.date[1]>>

\* ids of the comments that carry an attachment, in order
RECURSIVE AttachmentRows(_)
AttachmentRows(comments_data) ==
    IF comments_data = <<>> THEN <<>>
    ELSE (IF Head(comments_data).attachments > 0 THEN <<Head(comments_data).id>> ELSE <<>>)
         \o AttachmentRows(Tail(comments_data))

\* save_comments_and_attachments, called with non-empty comments_data.
\* save is "ok", "KeyError" (a detail response cannot be parsed) or
\* "Put1".."Put3" (that put_object call of the invocation raises).
save_comments_and_attachments(worker_id, page, comments_data, rate_limited, timestamp, save) ==
    LET comments      == [k \in 1..Len(comments_data) |-> to_csv_row(comments_data[k])]
        attachments   == [k \in 1..Len(AttachmentRows(comments_data)) |->
                             <<AttachmentRows(comments_data)[k], 1>>]
        comments_key  == CommentsKey(worker_id, page, timestamp, rate_limited)
        attachments_key == IF attachments # <<>>
                           THEN <<AttachmentsKey(worker_id, page, timestamp, rate_limited)>>
                           ELSE <<>>
        metadata == [workerId            |-> worker_id,
                     pageNumber          |-> page,
                     processedComments   |-> Len(comments),
                     processedAttachments |-> Len(attachments),
                     rateLimited         |-> rate_limited,
                     commentsFile        |-> <<comments_key>>,
                     attachmentsFile     |-> attachments_key,
                     completionTime      |-> timestamp]
        all_puts == <<[key |-> comments_key, body |-> CsvFile(CommentColumns, comments)]>>
                    \o (IF attachments # <<>>
                        THEN <<[key |-> attachments_key[1],
                                body |-> CsvFile(AttachmentColumns, attachments)]>>
                        ELSE <<>>)
                    \o <<[key |-> MetadataKey(worker_id, page, timestamp), body |-> metadata]>>
        failing == CASE save = "Put1" -> 1 [] save = "Put2" -> 2 [] save = "Put3" -> 3
                     [] OTHER -> 0
    IN IF save = "KeyError"
       THEN [raised |-> "KeyError", puts |-> <<>>, metadata |-> <<>>,
             comments_key |-> <<>>, attachments_key |-> <<>>]
       ELSE IF failing >= 1 /\ failing <= Len(all_puts)
       THEN [raised |-> "S3Error", puts |-> SubSeq(all_puts, 1, failing - 1),
             metadata |-> <<>>, comments_key |-> <<>>, attachments_key |-> <<>>]
       ELSE [raised |-> "none", puts |-> all_puts, metadata |-> <<metadata>>,
             comments_key |-> <<comments_key>>, attachments_key |-> attachments_key]

RateLimitedFlagOnAny429(fetched) ==
    \/ fetched.raised = "RateLimitReached"
    \/ Len(fetched.log) > 0 /\ fetched.log[Len(fetched.log)].response = "429"

\* rate_limited of lambda_handler: set only in 'except RateLimitReached'
\* around the call of fetch_comments_page
RateLimitedFlag(fetched) ==
    fetched.raised = "RateLimitReached"

\* the dict lambda_handler returns
WorkerResult(event, rate_limited, saved, last_processed_date) ==
    [workerId             |-> event.workerId,
     pageNumber           |-> event.pageNumber,
     processedComments    |-> IF saved.metadata # <<>>
                              THEN saved.metadata[1].processedComments ELSE 0,
     processedAttachments |-> IF saved.metadata # <<>>
                              THEN saved.metadata[1].processedAttachments ELSE 0,
     commentsFile         |-> saved.comments_key,
     attachmentsFile      |-> saved.attachments_key,
     metadata             |-> saved.metadata,
     rateLimited          |-> BoolJson(rate_limited),
     isComplete           |-> BoolJson(~rate_limited),
     needsReprocessing    |-> "absent",
     lastProcessedDate    |-> last_processed_date]

NothingSaved ==
    [raised |-> "none", puts |-> <<>>, metadata |-> <<>>,
     comments_key |-> <<>>, attachments_key |-> <<>>]

\* lambda_handler after save_comments_and_attachments returned or raised
WorkerAfterSave(event, fetched, rate_limited, last_processed_date, saved) ==
    IF saved.raised # "none"
    THEN [raised |-> saved.raised, result |-> <<>>, puts |-> saved.puts,
          log |-> fetched.log, fetched |-> fetched.detailed_comments]
    ELSE [raised |-> "none",
          result |-> <<WorkerResult(event, rate_limited, saved, last_processed_date)>>,
          puts |-> saved.puts, log |-> fetched.log, fetched |-> fetched.detailed_comments]

\* lambda_handler after fetch_comments_page returned or raised
WorkerAfterFetch(event, script, timestamp, fetched, rate_limited, last_processed_date) ==
    IF fetched.raised \notin {"none", "RateLimitReached"}
    THEN [raised |-> fetched.raised, result |-> <<>>, puts |-> <<>>,
          log |-> fetched.log, fetched |-> fetched.detailed_comments]
    ELSE IF fetched.detailed_comments # <<>>
    THEN Only({WorkerAfterSave(event, fetched, rate_limited, last_processed_date, saved) :
               saved \in {save_comments_and_attachments(
                             event.workerId, event.pageNumber, fetched.detailed_comments,
                             rate_limited, timestamp, script.save)}})
    ELSE WorkerAfterSave(event, fetched, rate_limited, last_processed_date, NothingSaved)

\* lambda_handler of the worker.
\* event = [workerId, pageNumber, pageSize, lastModifiedDate]
worker_handler(event, script, timestamp) ==
    Only({WorkerAfterFetch(event, script, timestamp, fetched, RateLimitedFlag(fetched),
                           IF event.pageNumber # 20
                           THEN event.lastModifiedDate
                           ELSE fetched.last_processed_date) :
          fetched \in {fetch_comments_page(script)}})

----------------------------------------------------------------------------
(* Aggregator: src/lambda/combiner/index.py *)

FinalKinds == {"final_comments", "final_attachments", "final_metadata"}

ShardKinds == {"comments", "attachments", "metadata"}

FinalKey(kind, timestamp) ==
    [kind |-> kind, worker |-> 0, page |-> 0, ts |-> timestamp, rate_limited |-> FALSE]

\* before-clustering/<document>/<kind>_<document>_<timestamp>.csv
ClusteringKey(kind, timestamp) ==
    [kind |-> kind, worker |-> 0, page |-> 0, ts |-> timestamp, rate_limited |-> FALSE]

KeyBefore(a, b) ==
    \/ a.worker < b.worker
    \/ a.worker = b.worker /\ a.page < b.page
    \/ a.worker = b.worker /\ a.page = b.page /\ a.ts < b.ts
    \/ a.worker = b.worker /\ a.page = b.page /\ a.ts = b.ts
         /\ ~a.rate_limited /\ b.rate_limited

\* list_objects_v2 under "<document>/<kind>/": the objects in key order
\* (objects of one worker and page are listed by timestamp, the plain name
\* before the _rate_limited one)
ListObjects(objs) ==
    [i \in 1..Cardinality(objs) |->
        CHOOSE o \in objs :
            Cardinality({q \in objs : KeyBefore(q.key, o.key)}) = i - 1]

Reverse(s) == [i \in 1..Len(s) |-> s[Len(s) + 1 - i]]

\* what the paginator yields: the code relies on no order of the listing;
\* listing is "ascending" (key order) or "descending"
Paginate(objs, listing) ==
    IF listing = "ascending" THEN ListObjects(objs) ELSE Reverse(ListObjects(objs))

\* the sort key (x['page'], x['worker']) of get_content_files
SortKeyLess(a, b) ==
    a.key.page < b.key.page \/ (a.key.page = b.key.page /\ a.key.worker < b.key.worker)

SortKeyEqual(a, b) ==
    a.key.page = b.key.page /\ a.key.worker = b.key.worker

\* sorted(files, key=...): a stable sort, files with equal keys keep their
\* listing order
StableSort(files) ==
    [r \in 1..Len(files) |->
        files[CHOOSE i \in 1..Len(files) :
                 Cardinality({j \in 1..Len(files) :
                                 \/ SortKeyLess(files[j], files[i])
                                 \/ SortKeyEqual(files[j], files[i]) /\ j < i}) = r - 1]]

get_content_files(store, content_type, listing) ==
    StableSort(Paginate({o \in store : o.key.kind = content_type}, listing))

\* position of a column in a header, 0 when the header does not have it
ColumnIndex(header, column) ==
    IF \E j \in 1..Len(header) : header[j] = column
    THEN CHOOSE j \in 1..Len(header) : header[j] = column
    ELSE 0

\* csv_writer.writerow(row) for a row csv.DictReader read under header:
\* the cells in the order of fieldnames, restval for a missing column
WriteRow(fieldnames, header, row) ==
    [i \in 1..Len(fieldnames) |->
        IF ColumnIndex(header, fieldnames[i]) = 0
        THEN EmptyCell
        ELSE row[ColumnIndex(header, fieldnames[i])]]

\* csv_writer.writerow raises ValueError for a row with a key that is not in
\* fieldnames (extrasaction='raise'); combine_csv_files catches it and goes
\* on with the next file
RowsRejected(fieldnames, file) ==
    /\ file.rows # <<>>
    /\ \E j \in 1..Len(file.header) : ColumnIndex(fieldnames, file.header[j]) = 0

\* the rows of one file that reach the combined CSV
RowsWritten(fieldnames, file) ==
    IF RowsRejected(fieldnames, file)
    THEN <<>>
    ELSE [r \in 1..Len(file.rows) |-> WriteRow(fieldnames, file.header, file.rows[r])]

\* combine_csv_files: the first file's header becomes the header of the
\* combined CSV; total_rows counts the rows read
combine_csv_files(files) ==
    IF files = <<>>
    THEN [csv |-> CsvFile(<<>>, <<>>), total_rows |-> 0]
    ELSE [csv |-> CsvFile(files[1].body.header,
                          Flatten([k \in 1..Len(files) |->
                                      RowsWritten(files[1].body.header, files[k].body)])),
          total_rows |-> SumSeq([k \in 1..Len(files) |-> Len(files[k].body.rows)])]

\* minimum and maximum of a non-empty set of numbers
SetMin(S) == CHOOSE x \in S : \A y \in S : x <= y
SetMax(S) == CHOOSE x \in S : \A y \in S : x >= y

IsRateLimitedRecord(o) == o.body.rateLimited

WorkerPagePair(o) == <<o.body.workerId, o.body.pageNumber>>

\* startTime as it stands after the first record with a completionTime
FirstListedTime(records) ==
    IF records = <<>> THEN <<>> ELSE <<records[1].body.completionTime>>

\* startTime: None, then the smallest completionTime seen
EarliestTime(records) ==
    IF records = <<>>
    THEN <<>>
    ELSE <<SetMin({records[k].body.completionTime : k \in 1..Len(records)})>>

\* endTime: None, then the largest completionTime seen
LatestTime(records) ==
    IF records = <<>>
    THEN <<>>
    ELSE <<SetMax({records[k].body.completionTime : k \in 1..Len(records)})>>

\* aggregate_metadata: the totals accumulated over the listed metadata records
aggregate_metadata(store, listing) ==
    LET records == Paginate({o \in store : o.key.kind = "metadata"}, listing)
    IN [totalComments    |-> SumSeq([k \in 1..Len(records) |->
                                        records[k].body.processedComments]),
        totalAttachments |-> SumSeq([k \in 1..Len(records) |->
                                        records[k].body.processedAttachments]),
        totalPages       |-> SetMax({0} \cup {records[k].body.pageNumber :
                                                 k \in 1..Len(records)}),
        rateLimitedWorkers |-> SeqMap(WorkerPagePair,
                                      SelectSeq(records, IsRateLimitedRecord)),
        startTime |-> EarliestTime(records),
        endTime   |-> LatestTime(records)]

\* clean_directory
clean_directory(store, kinds) == {o \in store : o.key.kind \notin kinds}

\* create_empty_attachments_file: the header row only
create_empty_attachments_file(cl, timestamp) ==
    PutObject(cl, ClusteringKey("clustering_attachments", timestamp),
              CsvFile(AttachmentColumns, <<>>))

\* event.get('cleanupFiles', True)
CleanupFiles(event) ==
    IF event.cleanupFiles = <<>> THEN TRUE ELSE event.cleanupFiles[1]

\* one entry of the log of the writes and deletions of an invocation
Op(op, bucket, kind) == [op |-> op, bucket |-> bucket, kind |-> kind]

\* 'if not comments_files' mutated to never fire
NoPrimaryShardsIgnored(comments_files) ==
    FALSE

\* if not comments_files: raise Exception("No comment files found to combine")
NoPrimaryShards(comments_files) ==
    comments_files = <<>>

\* how an invocation that raises leaves the buckets
CombinerRaised(st, error) ==
    [raised |-> TRUE, error |-> error, store |-> st.store, clustering |-> st.clustering,
     ops |-> st.ops, result |-> <<>>]

\* the cleanup at the end of the combiner: the listed shards are deleted one
\* by one, then the metadata directory is cleaned
CleanupShards(st, comments_files, attachments_files) ==
    [st EXCEPT
       !.store = clean_directory(
                     {o \in st.store :
                        /\ \A k \in 1..Len(comments_files) : o.key # comments_files[k].key
                        /\ \A k \in 1..Len(attachments_files) :
                              o.key # attachments_files[k].key},
                     {"metadata"}),
       !.ops = st.ops
               \o [k \in 1..Len(comments_files) |-> Op("delete", "output", "comments")]
               \o [k \in 1..Len(attachments_files) |-> Op("delete", "output", "attachments")]
               \o <<Op("clean", "output", "metadata")>>]

\* the cleanup moved in front of the write of the run metadata
CleanupBeforeMetadata(st, event, comments_files, attachments_files) ==
    IF CleanupFiles(event) THEN CleanupShards(st, comments_files, attachments_files) ELSE st

\* nothing is deleted before the run metadata is written
NoEarlyCleanup(st, event, comments_files, attachments_files) ==
    st

\* the dict lambda_handler returns
CombinerReturned(st, comment_rows, attachment_rows, metadata) ==
    [raised |-> FALSE, error |-> "none", store |-> st.store,
     clustering |-> st.clustering, ops |-> st.ops,
     result |-> <<[totalComments      |-> comment_rows,
                   totalAttachments   |-> attachment_rows,
                   totalPages         |-> metadata.totalPages,
                   rateLimitedWorkers |-> metadata.rateLimitedWorkers,
                   processingStartTime |-> metadata.startTime,
                   processingEndTime  |-> metadata.endTime]>>]

\* s3_client.put_object of the run metadata
PutMetadata(st, timestamp, metadata) ==
    [st EXCEPT !.store = PutObject(st.store, FinalKey("final_metadata", timestamp), metadata),
               !.ops = Append(st.ops, Op("put", "output", "final_metadata"))]

\* lambda_handler from 'Save final metadata' on: the run metadata is written,
\* then the shards are cleaned up and the result is returned
SaveMetadata(st, event, timestamp, comments_files, attachments_files, comment_rows, attachment_rows, metadata) ==
    IF event.fault = "PutMetadata"
    THEN CombinerRaised(st, "S3Error")
    ELSE Only({CombinerReturned(done, comment_rows, attachment_rows, metadata) :
               done \in {IF CleanupFiles(event)
                         THEN CleanupShards(written, comments_files, attachments_files)
                         ELSE written :
                         written \in {PutMetadata(st, timestamp, metadata)}}})

\* lambda_handler from 'Aggregate metadata' on
CombineMetadata(st, event, timestamp, comments_files, attachments_files, comment_rows, attachment_rows) ==
    Only({SaveMetadata(c[1], event, timestamp, comments_files, attachments_files,
                       comment_rows, attachment_rows, c[2]) :
          c \in {<<NoEarlyCleanup(st, event, comments_files, attachments_files),
                   aggregate_metadata(st.store, event.listing)>>}})

\* the final attachments artifact and its copy to the clustering bucket
PutAttachments(st, event, timestamp, csv) ==
    [st EXCEPT
       !.store = PutObject(st.store, FinalKey("final_attachments", timestamp), csv),
       !.clustering =
           IF event.clustering_bucket = "set" /\ event.fault # "CopyAttachments"
           THEN PutObject(st.clustering, ClusteringKey("clustering_attachments", timestamp),
                          csv)
           ELSE st.clustering,
       !.ops = st.ops \o <<Op("put", "output", "final_attachments")>>
               \o (IF event.clustering_bucket = "set" /\ event.fault # "CopyAttachments"
                   THEN <<Op("copy", "clustering", "clustering_attachments")>>
                   ELSE <<>>)]

\* lambda_handler, 'Combine attachments CSV files if any exist'
CombineAttachments(st, event, timestamp, comments_files, attachments_files, comment_rows, combined) ==
    IF attachments_files = <<>>
    THEN CombineMetadata(st, event, timestamp, comments_files, attachments_files,
                         comment_rows, 0)
    ELSE IF event.fault = "PutAttachments"
    THEN CombinerRaised(st, "S3Error")
    ELSE Only({CombineMetadata(put, event, timestamp, comments_files, attachments_files,
                               comment_rows, combined.total_rows) :
               put \in {PutAttachments(st, event, timestamp, combined.csv)}})

\* lambda_handler, 'Copy to clustering bucket if configured': everything
\* inside the try; a failing copy_object leaves the rest of the try undone
CopyToClustering(st, event, timestamp, attachments_files, csv) ==
    IF event.clustering_bucket # "set"
    THEN st
    ELSE IF event.fault = "CopyComments"
    THEN [st EXCEPT !.clustering = {},
                    !.ops = Append(st.ops, Op("clean", "clustering", "before-clustering"))]
    ELSE [st EXCEPT
            !.clustering =
                IF attachments_files = <<>>
                THEN create_empty_attachments_file(
                         PutObject({}, ClusteringKey("clustering_comments", timestamp), csv),
                         timestamp)
                ELSE PutObject({}, ClusteringKey("clustering_comments", timestamp), csv),
            !.ops = st.ops
                    \o <<Op("clean", "clustering", "before-clustering"),
                         Op("copy", "clustering", "clustering_comments")>>
                    \o (IF attachments_files = <<>>
                        THEN <<Op("put", "clustering", "clustering_attachments")>>
                        ELSE <<>>)]

\* s3_client.put_object of the final comments artifact
PutComments(st, timestamp, csv) ==
    [st EXCEPT !.store = PutObject(st.store, FinalKey("final_comments", timestamp), csv),
               !.ops = Append(st.ops, Op("put", "output", "final_comments"))]

\* lambda_handler from 'Combine comments CSV files' to the copy to the
\* clustering bucket
CombineComments(st, event, timestamp, comments_files, attachments_files, combined, combined_attachments) ==
    Only({CombineAttachments(copied, event, timestamp, comments_files, attachments_files,
                             combined.total_rows, combined_attachments) :
          copied \in {CopyToClustering(put, event, timestamp, attachments_files,
                                       combined.csv) :
                      put \in {PutComments(st, timestamp, combined.csv)}}})

\* the files of the list that combine_csv_files can read: get_object raises
\* on the first listed comments shard under the fault "GetComments", and the
\* loop goes on with the next file ('except Exception: ... continue')
ReadableFiles(files, event) ==
    IF event.fault = "GetComments" /\ files # <<>> THEN Tail(files) ELSE files

\* lambda_handler once the final directory is cleaned and the shards are
\* listed: the check for primary shards and the final comments artifact
CombineListed(st, event, timestamp, comments_files, attachments_files) ==
    IF NoPrimaryShards(comments_files)
    THEN CombinerRaised(st, "NoPrimaryShards")
    ELSE IF event.fault = "PutComments"
    THEN CombinerRaised(st, "S3Error")
    ELSE Only({CombineComments(st, event, timestamp, comments_files, attachments_files,
                               c[1], c[2]) :
               c \in {<<combine_csv_files(ReadableFiles(comments_files, event)),
                        combine_csv_files(attachments_files)>>}})

\* lambda_handler of the combiner.
\* event = [cleanupFiles, clustering_bucket, fault, listing]:
\*   cleanupFiles       <<>> when the event has no such key, else <<bool>>
\*   clustering_bucket  "set" or "unset" (os.environ.get('CLUSTERING_BUCKET'))
\*   fault              the S3 call of the invocation that raises, or "none"
\*                      ("GetComments": reading the first comments shard)
\*   listing            the order in which list_objects_v2 yields
\* Returns how the invocation leaves the two buckets, whether it raised, the
\* dict it returns and the log of its writes and deletions.
combiner_handler(store, cl, event, timestamp) ==
    Only({CombineListed([store |-> c[1], clustering |-> cl,
                         ops |-> <<Op("clean", "output", "final")>>],
                        event, timestamp, c[2], c[3]) :
          c \in {<<cleaned, get_content_files(cleaned, "comments", event.listing),
                   get_content_files(cleaned, "attachments", event.listing)>> :
                 cleaned \in {clean_directory(store, FinalKinds)}}})

----------------
(* Values of the variables a specification does not use *)

EmptyStore == [k \in {} |-> [completed |-> FALSE, comment_offset |-> 0]]

IdlePlanner ==
    /\ total_comments = 0
    /\ max_page_size = 1
    /\ workers_per_batch = 1
    /\ checkpoints = EmptyStore
    /\ reprocess_items = <<>>
    /\ plan = <<>>

IdleChecker ==
    /\ chk_event = [currentBatch |-> 0, totalBatches |-> 0, batchResults |-> <<>>]
    /\ chk_result = <<>>

NoScript == [listing |-> <<>>, data |-> <<>>, details |-> <<>>, save |-> "ok"]

IdleRequest ==
    /\ req_responses = <<>>
    /\ req_out = <<>>

IdleWorker ==
    /\ wk_event = [workerId |-> 0, pageNumber |-> 1, pageSize |-> handler_page_size,
                   lastModifiedDate |-> <<>>]
    /\ wk_script = NoScript
    /\ wk_out = <<>>
    /\ IdleRequest

IdleStore ==
    /\ blobs = {}
    /\ clock = 0

NoAggEvent ==
    [cleanupFiles |-> <<>>, clustering_bucket |-> "unset", fault |-> "none",
     listing |-> "ascending"]

IdleAgg ==
    /\ agg_event = NoAggEvent
    /\ agg_outs = <<>>
    /\ clustering = {}

IdleRun ==
    /\ runState = "IDLE"
    /\ failCause = "none"
    /\ api_rate_limit = 300
    /\ currentBatch = 0
    /\ batchResults = <<>>
    /\ rlBudget = 0
    /\ origPlan = <<>>
    /\ cleanItems = {}
    /\ rlDropped = 0
    /\ rounds = 0

----------------------------------------------------------------------------
(* Specification SpecPlan: calculate_work_batches applied to bounded inputs *)

CheckpointStores ==
    UNION {[K -> [completed : BOOLEAN, comment_offset : CkptOffsets]]
           : K \in SUBSET CkptKeys}

InitPlan ==
    /\ total_comments \in 0..MaxRecords
    /\ max_page_size \in 1..MaxPageSize
    /\ workers_per_batch \in 1..MaxWorkersPerBatch
    /\ checkpoints \in CheckpointStores
    /\ reprocess_items = <<>>
    /\ plan = <<>>
    /\ IdleChecker /\ IdleWorker /\ IdleStore /\ IdleRun /\ IdleAgg

\* one call of calculate_work_batches in normal mode
PlanNormal ==
    /\ plan = <<>>
    /\ plan' = <<calculate_work_batches(checkpoints, total_comments, workers_per_batch,
                                        max_page_size, <<>>)>>
    /\ UNCHANGED <<total_comments, max_page_size, workers_per_batch, checkpoints,
                   reprocess_items>>
    /\ UNCHANGED <<checkerVars, workerVars, storeVars, runVars, aggVars>>

\* one call of calculate_work_batches with a non-empty reprocess list
PlanReprocess ==
    /\ plan = <<>>
    /\ \E items \in SeqsUpTo(ReprocessChoices, MaxReprocess) \ {<<>>} :
         /\ reprocess_items' = items
         /\ plan' = <<calculate_work_batches(checkpoints, total_comments, workers_per_batch,
                                             max_page_size, items)>>
    /\ UNCHANGED <<total_comments, max_page_size, workers_per_batch, checkpoints>>
    /\ UNCHANGED <<checkerVars, workerVars, storeVars, runVars, aggVars>>

NextPlan == PlanNormal \/ PlanReprocess

SpecPlan == InitPlan /\ [][NextPlan]_vars

----------------------------------------------------------------------------
(* Specification SpecPlanTwice: calculate_work_batches called twice in     *)
(* normal mode on the same input; plan holds both return values            *)

\* a second call of calculate_work_batches with the arguments of the first
PlanAgain ==
    /\ Len(plan) = 1
    /\ reprocess_items = <<>>
    /\ plan' = Append(plan, calculate_work_batches(checkpoints, total_comments,
                                                   workers_per_batch, max_page_size, <<>>))
    /\ UNCHANGED <<total_comments, max_page_size, workers_per_batch, checkpoints,
                   reprocess_items>>
    /\ UNCHANGED <<checkerVars, workerVars, storeVars, runVars, aggVars>>

NextPlanTwice == PlanNormal \/ PlanAgain

SpecPlanTwice == InitPlan /\ [][NextPlanTwice]_vars

----------------------------------------------------------------------------
(* Specification SpecPlanFaulty: calculate_work_batches in normal mode on a *)
(* checkpoint table some of whose reads fail                               *)

FaultyKeys == {<<0, 1>>, <<1, 2>>, <<2, 3>>}

FaultyStores ==
    UNION {[K -> [completed : BOOLEAN, comment_offset : CkptOffsets, read_fails : BOOLEAN]]
           : K \in SUBSET FaultyKeys}

InitPlanFaulty ==
    /\ total_comments \in 0..MaxRecords
    /\ max_page_size \in 1..MaxPageSize
    /\ workers_per_batch \in 1..MaxWorkersPerBatch
    /\ checkpoints \in FaultyStores
    /\ reprocess_items = <<>>
    /\ plan = <<>>
    /\ IdleChecker /\ IdleWorker /\ IdleStore /\ IdleRun /\ IdleAgg

NextPlanFaulty == PlanNormal

SpecPlanFaulty == InitPlanFaulty /\ [][NextPlanFaulty]_vars

----------------------------------------------------------------------------
(* Specification SpecPlanNegative: calculate_work_batches in normal mode   *)
(* on a negative record count                                              *)

InitPlanNegative ==
    /\ total_comments \in (0 - MaxRecords)..(0 - 1)
    /\ max_page_size \in 1..MaxPageSize
    /\ workers_per_batch \in 1..MaxWorkersPerBatch
    /\ checkpoints \in CheckpointStores
    /\ reprocess_items = <<>>
    /\ plan = <<>>
    /\ IdleChecker /\ IdleWorker /\ IdleStore /\ IdleRun /\ IdleAgg

NextPlanNegative == PlanNormal

SpecPlanNegative == InitPlanNegative /\ [][NextPlanNegative]_vars

----------------------------------------------------------------------------
(* Specification SpecRate: the planner's lambda_handler in normal mode     *)
(* under a configured API rate limit                                       *)

\* values of os.environ['API_RATE_LIMIT']
RateLimitChoices ==
    {0, 49, 50, 299, 300, 549, 550, 799, 800, 1049, 1050, 1299, 1300, 2000}

RateTotals == {0, 1, 250, 2100}

InitRate ==
    /\ total_comments \in RateTotals
    /\ api_rate_limit \in RateLimitChoices
    /\ max_page_size = handler_page_size
    /\ workers_per_batch = calculate_workers_per_batch(api_rate_limit)
    /\ checkpoints = EmptyStore
    /\ reprocess_items = <<>>
    /\ plan = <<>>
    /\ IdleChecker /\ IdleWorker /\ IdleStore /\ IdleAgg
    /\ runState = "IDLE"
    /\ failCause = "none"
    /\ currentBatch = 0
    /\ batchResults = <<>>
    /\ rlBudget = 0
    /\ origPlan = <<>>
    /\ cleanItems = {}
    /\ rlDropped = 0
    /\ rounds = 0

\* one invocation of the planner's lambda_handler without batchCheck: it
\* returns a plan or re-raises what calculate_work_batches raised
PlanAtRate ==
    /\ plan = <<>>
    /\ failCause = "none"
    /\ IF DividesByZero(total_comments, calculate_workers_per_batch(api_rate_limit),
                        handler_page_size, <<>>)
       THEN /\ failCause' = "ZeroDivisionError"
            /\ UNCHANGED plan
       ELSE /\ plan' = <<planner_handler(checkpoints, total_comments, api_rate_limit, <<>>)>>
            /\ UNCHANGED failCause
    /\ UNCHANGED <<total_comments, max_page_size, workers_per_batch, checkpoints,
                   reprocess_items>>
    /\ UNCHANGED <<runState, api_rate_limit, currentBatch, batchResults, rlBudget, origPlan,
                   cleanItems, rlDropped, rounds>>
    /\ UNCHANGED <<checkerVars, workerVars, storeVars, aggVars>>

NextRate == PlanAtRate

SpecRate == InitRate /\ [][NextRate]_vars

----------------------------------------------------------------------------
(* Specification SpecCheck: the batch checker applied to bounded events *)

PayloadChoices ==
    {[workerId |-> 0, pageNumber |-> 1, isComplete |-> "true",   needsReprocessing |-> "absent"],
     [workerId |-> 1, pageNumber |-> 2, isComplete |-> "false",  needsReprocessing |-> "absent"],
     [workerId |-> 2, pageNumber |-> 3, isComplete |-> "absent", needsReprocessing |-> "absent"],
     [workerId |-> 3, pageNumber |-> 4, isComplete |-> "true",   needsReprocessing |-> "true"],
     [workerId |-> 4, pageNumber |-> 5, isComplete |-> "true",   needsReprocessing |-> "false"],
     [workerId |-> 5, pageNumber |-> 6, isComplete |-> "false",  needsReprocessing |-> "true"]}

ResultChoices == {[Payload |-> <<p>>] : p \in PayloadChoices} \cup {[Payload |-> <<>>]}

InitCheck ==
    /\ chk_event \in [currentBatch : 0..MaxBatchIndex,
                      totalBatches : 0..(MaxBatchIndex + 1),
                      batchResults : SeqsUpTo(ResultChoices, MaxResults)]
    /\ chk_result = <<>>
    /\ IdlePlanner /\ IdleWorker /\ IdleStore /\ IdleRun /\ IdleAgg

\* one invocation of the batch checker's lambda_handler
CheckBatch ==
    /\ chk_result = <<>>
    /\ chk_result' = <<batch_checker(chk_event)>>
    /\ UNCHANGED chk_event
    /\ UNCHANGED <<plannerVars, workerVars, storeVars, runVars, aggVars>>

NextCheck == CheckBatch

SpecCheck == InitCheck /\ [][NextCheck]_vars

----------------------------------------------------------------------------
(* Specification SpecWorker: one worker invocation against a scripted source *)

\* how one request can go: the responses its attempts receive
RequestScripts ==
    {<<"200">>, <<"429">>, <<"500">>,
     <<"HTTPError", "200">>, <<"HTTPError", "429">>,
     <<"HTTPError", "HTTPError", "200">>,
     <<"HTTPError", "HTTPError", "HTTPError">>}

\* the k-th summary record of a page listing
SourceRecord(k) ==
    [id |-> k, date |-> IF k = 3 THEN <<>> ELSE <<3 - k>>, attachments |-> k % 2]

SourcePages == {[k \in 1..n |-> SourceRecord(k)] : n \in 0..MaxListed}

SaveOutcomes == {"ok", "KeyError", "Put1", "Put2", "Put3"}

DetailScripts(req_scripts, n) == {d \in SeqsUpTo(req_scripts, n) : Len(d) = n}

WorkerScripts ==
    UNION {[listing : RequestScripts, data : {page},
            details : DetailScripts(RequestScripts, Len(page)),
            save : SaveOutcomes] : page \in SourcePages}

InitWorker ==
    /\ wk_event \in [workerId : {0}, pageNumber : {1, 20}, pageSize : {handler_page_size},
                     lastModifiedDate : {<<>>, <<1>>}]
    /\ wk_script = NoScript
    /\ wk_out = <<>>
    /\ IdleRequest
    /\ blobs = {}
    /\ clock = 0
    /\ IdlePlanner /\ IdleChecker /\ IdleRun /\ IdleAgg

\* one invocation of the worker's lambda_handler
InvokeWorker ==
    /\ wk_out = <<>>
    /\ \E script \in WorkerScripts :
         \E out \in {worker_handler(wk_event, script, clock)} :
            /\ wk_script' = script
            /\ wk_out' = <<out>>
            /\ blobs' = PutAll(blobs, out.puts)
    /\ UNCHANGED <<wk_event, clock, req_responses, req_out>>
    /\ UNCHANGED <<plannerVars, checkerVars, runVars, aggVars>>

NextWorker == InvokeWorker

SpecWorker == InitWorker /\ [][NextWorker]_vars

----------------------------------------------------------------------------
(* Specification SpecRequest: one call of _make_request; every attempt may *)
(* receive any response                                                    *)

AttemptResponses == {r \in SeqsUpTo(Responses, max_retries) : Len(r) = max_retries}

InitRequest ==
    /\ req_responses \in AttemptResponses
    /\ req_out = <<>>
    /\ wk_event = [workerId |-> 0, pageNumber |-> 1, pageSize |-> handler_page_size,
                   lastModifiedDate |-> <<>>]
    /\ wk_script = NoScript
    /\ wk_out = <<>>
    /\ IdlePlanner /\ IdleChecker /\ IdleStore /\ IdleRun /\ IdleAgg

\* one call of _make_request
MakeRequest ==
    /\ req_out = <<>>
    /\ req_out' = <<make_request(req_responses)>>
    /\ UNCHANGED <<req_responses, wk_event, wk_script, wk_out>>
    /\ UNCHANGED <<plannerVars, checkerVars, storeVars, runVars, aggVars>>

NextRequest == MakeRequest

SpecRequest == InitRequest /\ [][NextRequest]_vars

----------------------------------------------------------------------------
(* Specification SpecRun: one document run.  The driving workflow plans,   *)
(* dispatches the workers of one batch, hands their results to the batch   *)
(* checker, re-plans the incomplete items or advances, and aggregates.     *)

RunTotals == {0, 100, 250}
RunRateLimits == {300, 550}

\* the combiner's event and environment during a run: no storage faults
RunAggEvents ==
    [cleanupFiles : {<<>>, <<TRUE>>, <<FALSE>>}, clustering_bucket : {"unset", "set"},
     fault : {"none"}, listing : {"ascending"}]

RunWorkerScripts ==
    UNION {[listing : {<<"200">>, <<"429">>, <<"500">>}, data : {page},
            details : DetailScripts({<<"200">>, <<"429">>}, Len(page)),
            save : {"ok"}] : page \in SourcePages}

Count429(log) == Cardinality({k \in 1..Len(log) : log[k].response = "429"})

\* listed records the invocation did not persist because a detail fetch
\* received a 429: the record of that fetch and all records after it
DroppedByRateLimit(script, out) ==
    IF Len(out.log) > 0 /\ out.log[Len(out.log)].response = "429"
       /\ out.log[Len(out.log)].target # "listing"
    THEN Len(script.data) - (out.log[Len(out.log)].target[1] - 1)
    ELSE 0

InitRun ==
    /\ total_comments \in RunTotals
    /\ api_rate_limit \in RunRateLimits
    /\ max_page_size = handler_page_size
    /\ workers_per_batch = calculate_workers_per_batch(api_rate_limit)
    /\ checkpoints = EmptyStore
    /\ reprocess_items = <<>>
    /\ plan = <<>>
    /\ IdleChecker /\ IdleWorker /\ IdleStore /\ IdleAgg
    /\ runState = "NEW"
    /\ failCause = "none"
    /\ currentBatch = 0
    /\ batchResults = <<>>
    /\ rlBudget = MaxRateLimits
    /\ origPlan = <<>>
    /\ cleanItems = {}
    /\ rlDropped = 0
    /\ rounds = 0

\* the driver invokes the planner in normal mode and takes its position
\* (currentBatch) from the planner's output
DriverPlan ==
    /\ runState = "NEW"
    /\ \E p \in {planner_handler(checkpoints, total_comments, api_rate_limit, <<>>)} :
          /\ plan' = <<p>>
          /\ origPlan' = <<p>>
          /\ currentBatch' = p.currentBatch
    /\ runState' = "PLANNED"
    /\ UNCHANGED <<total_comments, max_page_size, workers_per_batch, checkpoints,
                   reprocess_items>>
    /\ UNCHANGED <<failCause, api_rate_limit, batchResults, rlBudget, cleanItems,
                   rlDropped, rounds>>
    /\ UNCHANGED <<checkerVars, workerVars, storeVars, aggVars>>

\* the driver dispatches the workers of batches[currentBatch] of the plan it
\* holds; with no such batch it moves on to aggregation
DriverDispatch ==
    /\ runState = "PLANNED"
    /\ IF currentBatch < Len(plan[1].batches)
       THEN /\ batchResults' = [k \in 1..Len(plan[1].batches[currentBatch + 1].workers) |-> <<>>]
            /\ runState' = "DISPATCHING"
       ELSE /\ batchResults' = <<>>
            /\ runState' = "AGGREGATING"
    /\ UNCHANGED <<failCause, api_rate_limit, currentBatch, rlBudget, origPlan, cleanItems,
                   rlDropped, rounds>>
    /\ UNCHANGED <<plannerVars, checkerVars, workerVars, storeVars, aggVars>>

\* one worker of the dispatched batch runs its lambda_handler
RunWorker ==
    /\ runState = "DISPATCHING"
    /\ \E k \in 1..Len(batchResults) : \E script \in RunWorkerScripts :
         /\ batchResults[k] = <<>>
         /\ \E out \in {worker_handler(
                          [workerId |-> plan[1].batches[currentBatch + 1].workers[k].workerId,
                           pageNumber |-> plan[1].batches[currentBatch + 1].workers[k].pageNumber,
                           pageSize |-> plan[1].batches[currentBatch + 1].workers[k].pageSize,
                           lastModifiedDate |-> <<>>],
                          script, clock)} :
              /\ Count429(out.log) <= rlBudget
              /\ rlBudget' = rlBudget - Count429(out.log)
              /\ rlDropped' = rlDropped + DroppedByRateLimit(script, out)
              /\ blobs' = PutAll(blobs, out.puts)
              /\ IF out.raised # "none"
                 THEN /\ runState' = "FAILED"
                      /\ failCause' = out.raised
                      /\ UNCHANGED batchResults
                 ELSE /\ batchResults' = [batchResults EXCEPT ![k] = out.result]
                      /\ UNCHANGED <<runState, failCause>>
    /\ UNCHANGED <<api_rate_limit, currentBatch, origPlan, cleanItems, rounds, clock>>
    /\ UNCHANGED <<plannerVars, checkerVars, workerVars, aggVars>>

CompleteItems(results) ==
    {<<results[k][1].workerId, results[k][1].pageNumber>> :
        k \in {j \in 1..Len(results) : results[j][1].isComplete = "true"}}

\* all workers of the batch returned: the batch checker's lambda_handler runs
\* on the driver's position and the totalBatches of the plan the driver holds
RunCheck ==
    /\ runState = "DISPATCHING"
    /\ \A k \in 1..Len(batchResults) : batchResults[k] # <<>>
    /\ \E event \in {[currentBatch |-> currentBatch,
                        totalBatches |-> plan[1].totalBatches,
                        batchResults |-> [k \in 1..Len(batchResults) |->
                                             [Payload |-> batchResults[k]]]]} :
          /\ chk_event' = event
          /\ chk_result' = <<batch_checker(event)>>
    /\ cleanItems' = cleanItems \cup CompleteItems(batchResults)
    /\ runState' = "CHECKED"
    /\ UNCHANGED <<failCause, api_rate_limit, currentBatch, batchResults, rlBudget,
                   origPlan, rlDropped, rounds>>
    /\ UNCHANGED <<plannerVars, workerVars, storeVars, aggVars>>

\* needsReprocessing: the driver feeds incompleteItems back into the planner
\* and takes the planner's output as the plan to dispatch
DriverReprocess ==
    /\ runState = "CHECKED"
    /\ chk_result[1].needsReprocessing
    /\ \E p \in {planner_handler(checkpoints, total_comments, api_rate_limit, chk_result)} :
          /\ plan' = <<p>>
          /\ currentBatch' = p.currentBatch
    /\ reprocess_items' = chk_result[1].incompleteItems[1]
    /\ rounds' = Min(rounds + 1, MaxRounds)
    /\ runState' = "PLANNED"
    /\ UNCHANGED <<total_comments, max_page_size, workers_per_batch, checkpoints>>
    /\ UNCHANGED <<failCause, api_rate_limit, batchResults, rlBudget, origPlan, cleanItems,
                   rlDropped>>
    /\ UNCHANGED <<checkerVars, workerVars, storeVars, aggVars>>

\* clean batch with hasMoreBatches: the driver advances to the next batch
DriverAdvance ==
    /\ runState = "CHECKED"
    /\ ~chk_result[1].needsReprocessing
    /\ chk_result[1].hasMoreBatches
    /\ currentBatch' = currentBatch + 1
    /\ runState' = "PLANNED"
    /\ UNCHANGED <<failCause, api_rate_limit, batchResults, rlBudget, origPlan, cleanItems,
                   rlDropped, rounds>>
    /\ UNCHANGED <<plannerVars, checkerVars, workerVars, storeVars, aggVars>>

\* clean batch without hasMoreBatches: the driver starts aggregation
DriverFinish ==
    /\ runState = "CHECKED"
    /\ ~chk_result[1].needsReprocessing
    /\ ~chk_result[1].hasMoreBatches
    /\ runState' = "AGGREGATING"
    /\ UNCHANGED <<failCause, api_rate_limit, currentBatch, batchResults, rlBudget,
                   origPlan, cleanItems, rlDropped, rounds>>
    /\ UNCHANGED <<plannerVars, checkerVars, workerVars, storeVars, aggVars>>

\* the combiner's lambda_handler runs once
Aggregate ==
    /\ runState = "AGGREGATING"
    /\ \E event \in RunAggEvents :
         \E out \in {combiner_handler(blobs, clustering, event, clock)} :
            /\ agg_event' = event
            /\ blobs' = out.store
            /\ clustering' = out.clustering
            /\ agg_outs' = <<[start |-> blobs, out |-> out]>>
            /\ IF out.raised
               THEN runState' = "FAILED" /\ failCause' = out.error
               ELSE runState' = "DONE" /\ UNCHANGED failCause
    /\ UNCHANGED <<api_rate_limit, currentBatch, batchResults, rlBudget, origPlan,
                   cleanItems, rlDropped, rounds, clock>>
    /\ UNCHANGED <<plannerVars, checkerVars, workerVars>>

NextRun ==
    \/ DriverPlan
    \/ DriverDispatch
    \/ RunWorker
    \/ RunCheck
    \/ DriverReprocess
    \/ DriverAdvance
    \/ DriverFinish
    \/ Aggregate

SpecRun == InitRun /\ [][NextRun]_vars

\* the workflow always takes its next step, and the source stops sending
\* rate-limit signals once rlBudget is used up
SpecRunFair == SpecRun /\ WF_vars(NextRun)

----------------------------------------------------------------------------
(* Specification SpecResume: a run that may be abandoned at a batch        *)
(* boundary, after which the planner is invoked again in normal mode.      *)

\* the run is abandoned once the results of a batch have been checked
DriverAbandon ==
    /\ runState = "CHECKED"
    /\ runState' = "ABANDONED"
    /\ UNCHANGED <<failCause, api_rate_limit, currentBatch, batchResults, rlBudget,
                   origPlan, cleanItems, rlDropped, rounds>>
    /\ UNCHANGED <<plannerVars, checkerVars, workerVars, storeVars, aggVars>>

\* the planner is invoked again in normal mode, on the checkpoint table as
\* the abandoned run left it
DriverResume ==
    /\ runState = "ABANDONED"
    /\ \E p \in {planner_handler(checkpoints, total_comments, api_rate_limit, <<>>)} :
          /\ plan' = <<p>>
          /\ currentBatch' = p.currentBatch
    /\ runState' = "RESUMED"
    /\ UNCHANGED <<total_comments, max_page_size, workers_per_batch, checkpoints,
                   reprocess_items>>
    /\ UNCHANGED <<failCause, api_rate_limit, batchResults, rlBudget, origPlan, cleanItems,
                   rlDropped, rounds>>
    /\ UNCHANGED <<checkerVars, workerVars, storeVars, aggVars>>

NextResume == NextRun \/ DriverAbandon \/ DriverResume

SpecResume == InitRun /\ [][NextResume]_vars

----------------------------------------------------------------------------
(* Specification SpecAgg: the combiner invoked on a bucket of shards *)

\* the shards a bucket can hold: worker w of a normal plan has page
\* (w % 20) + 1 of set (w \div 20) + 1.  header names the columns of the
\* comments shard ("standard" is what this worker writes, the others are
\* shards of a worker with one more column, one column less, or the columns
\* in another order); orphan marks a shard whose comments object was deleted
\* by an earlier cleanup that could not delete the rest.
ShardChoices ==
    {[worker |-> 0,  page |-> 1, ts |-> 0, rate_limited |-> FALSE, n |-> 2, attach |-> TRUE,
      header |-> "standard", orphan |-> FALSE],
     [worker |-> 0,  page |-> 1, ts |-> 1, rate_limited |-> TRUE,  n |-> 1, attach |-> FALSE,
      header |-> "standard", orphan |-> FALSE],
     [worker |-> 1,  page |-> 2, ts |-> 0, rate_limited |-> FALSE, n |-> 1, attach |-> FALSE,
      header |-> "standard", orphan |-> FALSE],
     [worker |-> 20, page |-> 1, ts |-> 1, rate_limited |-> FALSE, n |-> 1, attach |-> FALSE,
      header |-> "standard", orphan |-> FALSE],
     [worker |-> 2,  page |-> 3, ts |-> 0, rate_limited |-> FALSE, n |-> 1, attach |-> FALSE,
      header |-> "extra", orphan |-> FALSE],
     [worker |-> 3,  page |-> 4, ts |-> 0, rate_limited |-> FALSE, n |-> 1, attach |-> FALSE,
      header |-> "missing", orphan |-> FALSE],
     [worker |-> 4,  page |-> 5, ts |-> 1, rate_limited |-> FALSE, n |-> 1, attach |-> FALSE,
      header |-> "reordered", orphan |-> FALSE],
     [worker |-> 5,  page |-> 6, ts |-> 0, rate_limited |-> FALSE, n |-> 1, attach |-> TRUE,
      header |-> "standard", orphan |-> TRUE]}

\* the detailed comments a shard was written from
ShardData(shard) ==
    [k \in 1..shard.n |-> [id |-> 10 * shard.worker + k, date |-> <<k>>,
                           attachments |-> IF shard.attach THEN k % 2 ELSE 0]]

\* a comments CSV as a worker with other columns writes it
ForeignCsv(csv, header) ==
    CASE header = "extra" ->
           CsvFile(Append(csv.header, "extra"),
                   [r \in 1..Len(csv.rows) |-> Append(csv.rows[r], 9)])
      [] header = "missing" ->
           CsvFile(<<csv.header[1]>>, [r \in 1..Len(csv.rows) |-> <<csv.rows[r][1]>>])
      [] header = "reordered" ->
           CsvFile(<<csv.header[2], csv.header[1]>>,
                   [r \in 1..Len(csv.rows) |-> <<csv.rows[r][2], csv.rows[r][1]>>])
      [] OTHER -> csv

\* the objects save_comments_and_attachments leaves in the bucket for a shard
ShardObjects(shard) ==
    {IF o.key.kind = "comments" THEN [o EXCEPT !.body = ForeignCsv(@, shard.header)] ELSE o :
       o \in {q \in PutAll({}, save_comments_and_attachments(
                                   shard.worker, shard.page, ShardData(shard),
                                   shard.rate_limited, shard.ts, "ok").puts) :
                ~(shard.orphan /\ q.key.kind = "comments")}}

ShardStores ==
    {UNION {ShardObjects(shard) : shard \in S} :
       S \in {T \in SUBSET ShardChoices : Cardinality(T) <= MaxShards}}

AggFaults == {"none", "GetComments", "PutComments", "CopyComments", "PutAttachments",
              "CopyAttachments", "PutMetadata"}

AggEvents ==
    [cleanupFiles : {<<>>, <<TRUE>>, <<FALSE>>}, clustering_bucket : {"unset", "set"},
     fault : AggFaults, listing : {"ascending", "descending"}]

InitAgg ==
    /\ blobs \in ShardStores
    /\ clock = 1
    /\ agg_event \in AggEvents
    /\ agg_outs = <<>>
    /\ clustering = {}
    /\ IdlePlanner /\ IdleChecker /\ IdleWorker /\ IdleRun

\* one invocation of the combiner's lambda_handler
Combine ==
    /\ Len(agg_outs) < MaxCombines
    /\ \E out \in {combiner_handler(blobs, clustering, agg_event, clock)} :
          /\ blobs' = out.store
          /\ clustering' = out.clustering
          /\ agg_outs' = Append(agg_outs, [start |-> blobs, out |-> out])
    /\ UNCHANGED <<agg_event, clock>>
    /\ UNCHANGED <<plannerVars, checkerVars, workerVars, runVars>>

\* a second passes
Tick ==
    /\ clock < 1 + MaxTicks
    /\ clock' = clock + 1
    /\ UNCHANGED blobs
    /\ UNCHANGED <<plannerVars, checkerVars, workerVars, runVars, aggVars>>

NextAgg == Combine \/ Tick

SpecAgg == InitAgg /\ [][NextAgg]_vars

----------------------------------------------------------------------------
(* Specification SpecReinvoke: the worker invoked again and again for the  *)
(* same (document, workerId, pageNumber) while time passes.                *)

\* one more invocation of the worker's lambda_handler for wk_event
ReinvokeWorker ==
    /\ \E script \in RunWorkerScripts :
         \E out \in {worker_handler(wk_event, script, clock)} :
            /\ wk_script' = script
            /\ wk_out' = <<out>>
            /\ blobs' = PutAll(blobs, out.puts)
    /\ UNCHANGED <<wk_event, clock, req_responses, req_out>>
    /\ UNCHANGED <<plannerVars, checkerVars, runVars, aggVars>>

NextReinvoke == ReinvokeWorker \/ Tick

SpecReinvoke == InitWorker /\ [][NextReinvoke]_vars

----------------------------------------------------------------------------
(* Claims about the WorkPlanner *)

\* ceil(n / d) stated without the planner's arithmetic
CeilOf(n, d) == CHOOSE k \in 0..(n + 1) : k * d >= n /\ (k = 0 \/ (k - 1) * d < n)

NormalPlanDone == plan # <<>> /\ reprocess_items = <<>>

WorkerIdsDistinct(items) ==
    \A i, j \in 1..Len(items) : items[i].workerId = items[j].workerId => i = j

\* C1: with an empty checkpoint store, normal-mode planning of N records with
\* page size P emits exactly ceil(N/P) work items, with pairwise distinct
\* workerIds, whose expectedComments add up to N.
C1_CoverageExact ==
    (NormalPlanDone /\ DOMAIN checkpoints = {}) =>
        LET items == PlanItems(plan[1])
        IN /\ Len(items) = CeilOf(total_comments, max_page_size)
           /\ WorkerIdsDistinct(items)
           /\ SumSeq([i \in 1..Len(items) |-> items[i].expectedComments]) = total_comments

\* C1 witness: an empty-store plan that spans two sets
C1_Witness ==
    /\ NormalPlanDone
    /\ DOMAIN checkpoints = {}
    /\ plan[1].expectedSets = 2
    /\ Len(PlanItems(plan[1])) > max_pages_per_set

ItemKey(item) == <<item.setNumber, item.pageNumber, item.workerId>>

NotCompletedInStore(item) ==
    ~(/\ <<item.workerId, item.pageNumber>> \in DOMAIN checkpoints
      /\ checkpoints[<<item.workerId, item.pageNumber>>].completed)

\* C2: for any checkpoint store, the items emitted by normal-mode planning
\* are exactly the items of the empty-store plan whose checkpoint is not
\* marked completed, each with the workerId it has in the empty-store plan.
C2_StableWorkerIds ==
    NormalPlanDone =>
        LET base  == PlanItems(calculate_work_batches(EmptyStore, total_comments,
                                   workers_per_batch, max_page_size, <<>>))
            items == PlanItems(plan[1])
        IN SeqMap(ItemKey, items) = SeqMap(ItemKey, SelectSeq(base, NotCompletedInStore))

\* C2 witness: a completed page was skipped and a later page was emitted
\* with the workerId that follows the skipped one
C2_Witness ==
    /\ NormalPlanDone
    /\ <<0, 1>> \in DOMAIN checkpoints
    /\ checkpoints[<<0, 1>>].completed
    /\ <<1, 2>> \in DOMAIN checkpoints
    /\ ~checkpoints[<<1, 2>>].completed
    /\ Len(PlanItems(plan[1])) >= 2
    /\ PlanItems(plan[1])[1].workerId = 1
    /\ PlanItems(plan[1])[1].pageNumber = 2

\* C3: a non-empty reprocess list yields exactly one batch holding exactly
\* the (workerId, pageNumber) pairs of the list, in order, whatever the
\* record total and the checkpoint store.
C3_ReprocessOneBatch ==
    (plan # <<>> /\ reprocess_items # <<>>) =>
        /\ plan[1].totalBatches = 1
        /\ Len(plan[1].batches) = 1
        /\ plan[1].batches[1].expectedWorkers = Len(reprocess_items)
        /\ [i \in 1..Len(plan[1].batches[1].workers) |->
               <<plan[1].batches[1].workers[i].workerId,
                 plan[1].batches[1].workers[i].pageNumber>>]
           = [i \in 1..Len(reprocess_items) |->
               <<reprocess_items[i].workerId, reprocess_items[i].pageNumber>>]

\* C3 witness: the list [(workerId=3, pageNumber=5)] planned over a store
\* that holds checkpoints, for a document with records
C3_Witness ==
    /\ plan # <<>>
    /\ reprocess_items = <<[workerId |-> 3, pageNumber |-> 5]>>
    /\ total_comments > 0
    /\ DOMAIN checkpoints # {}
    /\ Len(plan[1].batches[1].workers) = 1

----------------------------------------------------------------------------
(* Claims about the BatchCoordinator *)

Flagged(result) ==
    /\ result.Payload # <<>>
    /\ (result.Payload[1].isComplete = "false" \/ result.Payload[1].needsReprocessing = "true")

PayloadOf(result) == result.Payload[1]

AnyFlagged == \E i \in 1..Len(chk_event.batchResults) : Flagged(chk_event.batchResults[i])

\* C4: when some result is incomplete or flagged for reprocessing, the
\* checker returns hasMoreBatches, needsReprocessing, the input currentBatch
\* and exactly the flagged results in input order.
C4_ReprocessDecision ==
    (chk_result # <<>> /\ AnyFlagged) =>
        /\ chk_result[1].hasMoreBatches = TRUE
        /\ chk_result[1].needsReprocessing = TRUE
        /\ chk_result[1].currentBatch = <<chk_event.currentBatch>>
        /\ chk_result[1].incompleteItems =
              <<SeqMap(PayloadOf, SelectSeq(chk_event.batchResults, Flagged))>>

\* C4 witness: a batch with a complete result, an incomplete one and one
\* flagged needsReprocessing although complete
C4_Witness ==
    /\ chk_result # <<>>
    /\ Len(chk_event.batchResults) = 3
    /\ ~Flagged(chk_event.batchResults[1])
    /\ chk_event.batchResults[2].Payload # <<>>
    /\ chk_event.batchResults[2].Payload[1].isComplete = "true"
    /\ chk_event.batchResults[2].Payload[1].needsReprocessing = "true"
    /\ Flagged(chk_event.batchResults[3])
    /\ Len(chk_result[1].incompleteItems[1]) = 2

\* C5: when no result is incomplete or flagged, the checker returns
\* needsReprocessing = false and hasMoreBatches = (currentBatch + 1 < totalBatches).
C5_AdvanceDecision ==
    (chk_result # <<>> /\ ~AnyFlagged) =>
        /\ chk_result[1].needsReprocessing = FALSE
        /\ chk_result[1].hasMoreBatches =
              (chk_event.currentBatch + 1 < chk_event.totalBatches)

\* C5 witness: an all-complete result on the last batch
C5_Witness ==
    /\ chk_result # <<>>
    /\ ~AnyFlagged
    /\ Len(chk_event.batchResults) >= 1
    /\ chk_event.currentBatch + 1 = chk_event.totalBatches
    /\ chk_result[1].hasMoreBatches = FALSE

----------------------------------------------------------------------------
(* Claims about the Worker *)

WorkerLog == wk_out[1].log

SawRateLimit == \E k \in 1..Len(WorkerLog) : WorkerLog[k].response = "429"

\* C8: when a request of a worker invocation (the listing or a detail fetch)
\* receives a 429, the worker makes no further request, persists the records
\* it already fetched and returns rateLimited = true, isComplete = false.
C8_RateLimitStopsWorker ==
    (wk_out # <<>> /\ wk_script.save = "ok" /\ SawRateLimit) =>
        /\ \A k \in 1..Len(WorkerLog) : WorkerLog[k].response = "429" => k = Len(WorkerLog)
        /\ wk_out[1].fetched # <<>> =>
              \E o \in blobs : /\ o.key.kind = "comments"
                               /\ o.body.rows = [k \in 1..Len(wk_out[1].fetched) |->
                                                    to_csv_row(wk_out[1].fetched[k])]
        /\ wk_out[1].raised = "none"
        /\ wk_out[1].result[1].rateLimited = "true"
        /\ wk_out[1].result[1].isComplete = "false"

\* C9: a worker-local error (retries exhausted, a non-200 listing response,
\* a failure while parsing or saving) is returned as a WorkerResult; the
\* handler raises only for a failed storage write.
C9_WorkerNeverRaises ==
    wk_out # <<>> => wk_out[1].raised \in {"none", "S3Error"}

----------------------------------------------------------------------------
(* Claims about the document run *)

Aggregating ==
    \/ runState \in {"AGGREGATING", "DONE"}
    \/ runState = "FAILED" /\ failCause = "NoPrimaryShards"

C10_RateLimitNeverFails ==
    runState = "FAILED" =>
        /\ failCause # "RateLimitReached"
        /\ failCause = "NoPrimaryShards" => rlDropped = 0

----------------------------------------------------------------------------
(* Claims about resuming an abandoned run *)

\* C11: after a run was abandoned at a batch boundary, the plan the planner
\* emits in normal mode holds no work item for a page that a worker of the
\* abandoned run returned complete.
C11_ResumeSkipsCompleted ==
    runState = "RESUMED" =>
        \A b \in 1..Len(plan[1].batches) :
            \A k \in 1..Len(plan[1].batches[b].workers) :
                <<plan[1].batches[b].workers[k].workerId,
                  plan[1].batches[b].workers[k].pageNumber>> \notin cleanItems

----------------------------------------------------------------------------
(* Claims about the shards in the bucket *)

SameTriple(a, b) ==
    a.key.kind = b.key.kind /\ a.key.worker = b.key.worker /\ a.key.page = b.key.page

\* the data rows of the comments artifact an aggregation of the bucket writes
AggregatedRows ==
    combine_csv_files(get_content_files(blobs, "comments", "ascending")).csv.rows

\* C12: however often the worker was invoked for one (document, workerId,
\* pageNumber), the bucket holds at most one shard per content type for it,
\* and an aggregation of the bucket holds each record once.
C12_OneShardPerTriple ==
    /\ \A a, b \in blobs : SameTriple(a, b) => a.key = b.key
    /\ \A i, j \in 1..Len(AggregatedRows) :
          AggregatedRows[i] = AggregatedRows[j] => i = j

----------------------------------------------------------------------------
(* Claims about the Aggregator *)

\* the latest invocation of the combiner
LastOut == agg_outs[Len(agg_outs)]

Combined == agg_outs # <<>> /\ ~LastOut.out.raised

\* the consolidated comments artifact in the bucket
FinalComments == (CHOOSE o \in blobs : o.key.kind = "final_comments").body

\* the worker that wrote the shard of data row r of a comments CSV
\* (ShardData numbers the records of worker w from 10 * w + 1)
RowWorker(csv, r) == csv.rows[r][ColumnIndex(csv.header, "comment_id")] \div 10

\* the set and the page the planner gives to worker w of a normal plan
SetOfWorker(w) == (w \div max_pages_per_set) + 1
PageOfWorker(w) == (w % max_pages_per_set) + 1

\* (setNumber, pageNumber, workerId) of v is not after that of w
ShardOrderLeq(v, w) ==
    \/ SetOfWorker(v) < SetOfWorker(w)
    \/ SetOfWorker(v) = SetOfWorker(w) /\ PageOfWorker(v) < PageOfWorker(w)
    \/ SetOfWorker(v) = SetOfWorker(w) /\ PageOfWorker(v) = PageOfWorker(w) /\ v <= w

\* C13: the consolidated comments artifact holds the shards in ascending
\* (setNumber, pageNumber, workerId) order: the rows of a shard of an earlier
\* set come before the rows of a shard of a later set.
C13_SortedBySetPageWorker ==
    Combined =>
        \A i, j \in 1..Len(FinalComments.rows) :
            i < j => ShardOrderLeq(RowWorker(FinalComments, i), RowWorker(FinalComments, j))

\* the comments shards invocation n of the combiner listed, in merge order
ListedComments(n) == get_content_files(agg_outs[n].start, "comments", agg_event.listing)

\* a shard after the first has another header than the first
HeaderMismatch(files) ==
    \E k \in 2..Len(files) : files[k].body.header # files[1].body.header

Wrote(n, kind) ==
    \E i \in 1..Len(agg_outs[n].out.ops) :
        agg_outs[n].out.ops[i].op = "put" /\ agg_outs[n].out.ops[i].kind = kind

\* C14: when a comments shard after the first has a header that differs from
\* the first shard's header, the invocation raises and writes no consolidated
\* comments artifact.
C14_HeaderMismatchFails ==
    \A n \in 1..Len(agg_outs) :
        HeaderMismatch(ListedComments(n)) =>
            agg_outs[n].out.raised /\ ~Wrote(n, "final_comments")

\* entry i of the log of invocation n deletes per-worker shards or metadata
DeletesShards(n, i) ==
    /\ agg_outs[n].out.ops[i].op \in {"delete", "clean"}
    /\ agg_outs[n].out.ops[i].bucket = "output"
    /\ agg_outs[n].out.ops[i].kind \in ShardKinds

\* entry i of the log of invocation n writes a consolidated artifact
WritesArtifact(n, i) ==
    agg_outs[n].out.ops[i].op \in {"put", "copy"}

WroteBefore(n, i, kind) ==
    \E j \in 1..(i - 1) :
        agg_outs[n].out.ops[j].op = "put" /\ agg_outs[n].out.ops[j].kind = kind

\* the per-worker shards and metadata records of a bucket
ShardsOf(store) == {o \in store : o.key.kind \in ShardKinds}

\* C15: an invocation deletes per-worker shards and metadata records only
\* after it has written the consolidated comments artifact, the attachments
\* artifact when there is one, and the run metadata; an invocation that
\* raises leaves every shard and metadata record it found in the bucket.
C15_CleanupAfterCommit ==
    \A n \in 1..Len(agg_outs) :
        /\ \A i \in 1..Len(agg_outs[n].out.ops) :
              DeletesShards(n, i) =>
                  /\ WroteBefore(n, i, "final_comments")
                  /\ WroteBefore(n, i, "final_metadata")
                  /\ get_content_files(agg_outs[n].start, "attachments", agg_event.listing) # <<>>
                        => WroteBefore(n, i, "final_attachments")
                  /\ \A j \in 1..Len(agg_outs[n].out.ops) : WritesArtifact(n, j) => j < i
        /\ agg_outs[n].out.raised =>
              ShardsOf(agg_outs[n].start) \subseteq agg_outs[n].out.store

\* C15 witness: an invocation asked to clean up found comments and
\* attachments shards and failed at the write of the run metadata
C15_Witness ==
    /\ agg_outs # <<>>
    /\ CleanupFiles(agg_event)
    /\ agg_event.fault = "PutMetadata"
    /\ agg_outs[1].out.raised
    /\ Wrote(1, "final_comments")
    /\ Wrote(1, "final_attachments")
    /\ \E o \in agg_outs[1].start : o.key.kind = "metadata"

\* C16: when the bucket holds no comments shard, the invocation raises and
\* writes neither a consolidated artifact nor the run metadata, in the
\* output bucket or in the clustering bucket.
C16_NoPrimaryShardsFails ==
    \A n \in 1..Len(agg_outs) :
        ListedComments(n) = <<>> =>
            /\ agg_outs[n].out.raised
            /\ agg_outs[n].out.error = "NoPrimaryShards"
            /\ \A i \in 1..Len(agg_outs[n].out.ops) : ~WritesArtifact(n, i)
            /\ \A o \in agg_outs[n].out.store : o.key.kind \notin FinalKinds

\* C16 witness: an invocation on a bucket that holds attachments and
\* metadata of a worker but no comments shard raised
C16_Witness ==
    /\ agg_outs # <<>>
    /\ agg_outs[1].out.error = "NoPrimaryShards"
    /\ \E o \in agg_outs[1].start : o.key.kind = "attachments"
    /\ \E o \in agg_outs[1].start : o.key.kind = "metadata"

\* C17: two successive invocations of the combiner, with no shard written
\* in between, return the same row counts (totalComments, totalAttachments)
\* and the same run-metadata totals (totalPages, rate-limited list, start
\* and end time).
C17_AggregateTwiceSame ==
    \A n \in 1..(Len(agg_outs) - 1) :
        /\ agg_outs[n + 1].out.raised = agg_outs[n].out.raised
        /\ agg_outs[n + 1].out.result = agg_outs[n].out.result

\* the per-worker metadata records of a bucket
MetadataRecords(store) == {o.body : o \in {q \in store : q.key.kind = "metadata"}}

\* sums over a set of metadata records
RECURSIVE SumProcessedComments(_)
SumProcessedComments(R) ==
    IF R = {} THEN 0
    ELSE LET r == CHOOSE x \in R : TRUE
         IN r.processedComments + SumProcessedComments(R \ {r})

RECURSIVE SumProcessedAttachments(_)
SumProcessedAttachments(R) ==
    IF R = {} THEN 0
    ELSE LET r == CHOOSE x \in R : TRUE
         IN r.processedAttachments + SumProcessedAttachments(R \ {r})

\* the run metadata invocation n wrote
RunMetadata(n) ==
    (CHOOSE o \in agg_outs[n].out.store : o.key.kind = "final_metadata").body

\* m holds the totals of the set R of metadata records
TotalsOf(m, R) ==
    /\ m.totalComments = SumProcessedComments(R)
    /\ m.totalAttachments = SumProcessedAttachments(R)
    /\ \A r \in R : r.pageNumber <= m.totalPages
    /\ IF R = {} THEN m.totalPages = 0 ELSE \E r \in R : r.pageNumber = m.totalPages
    /\ Len(m.rateLimitedWorkers) = Cardinality({r \in R : r.rateLimited})
    /\ {m.rateLimitedWorkers[i] : i \in 1..Len(m.rateLimitedWorkers)}
          = {<<r.workerId, r.pageNumber>> : r \in {q \in R : q.rateLimited}}
    /\ IF R = {}
       THEN m.startTime = <<>> /\ m.endTime = <<>>
       ELSE /\ \E r \in R : m.startTime = <<r.completionTime>>
            /\ \E r \in R : m.endTime = <<r.completionTime>>
            /\ \A r \in R : m.startTime[1] <= r.completionTime /\ r.completionTime <= m.endTime[1]

ListedAttachments(n) == get_content_files(agg_outs[n].start, "attachments", agg_event.listing)

\* C19: an invocation that returns after merging at least one comments shard
\* and no attachments shard leaves an attachments artifact that consists of
\* the header row only, whatever the configuration.
C19_EmptyAttachmentsArtifact ==
    \A n \in 1..Len(agg_outs) :
        (~agg_outs[n].out.raised /\ ListedComments(n) # <<>> /\ ListedAttachments(n) = <<>>) =>
            \E o \in agg_outs[n].out.store \cup agg_outs[n].out.clustering :
                /\ o.key.kind \in {"final_attachments", "clustering_attachments"}
                /\ o.body = CsvFile(AttachmentColumns, <<>>)

OtherListing(listing) == IF listing = "ascending" THEN "descending" ELSE "ascending"

\* the consolidated comments artifact invocation n wrote
WrittenComments(n) ==
    (CHOOSE o \in agg_outs[n].out.store : o.key.kind = "final_comments").body

\* C20: the consolidated comments artifact an invocation writes is the one
\* it would write had the storage listed the same shards in the opposite
\* order: same rows, same order.
C20_ListingOrderIrrelevant ==
    \A n \in 1..Len(agg_outs) :
        Wrote(n, "final_comments") =>
            WrittenComments(n)
              = combine_csv_files(get_content_files(agg_outs[n].start, "comments",
                                                    OtherListing(agg_event.listing))).csv

----------------------------------------------------------------------------
(* Claims about the shape of the plan *)

\* the (workerId, pageNumber) pairs the planner looks up when every page
\* before was skipped: page i of the run has worker id i and the page number
\* of its position in its set
ConsultedPairs ==
    {<<i, (i % max_pages_per_set) + 1>> :
        i \in 0..(CeilOf(total_comments, max_page_size) - 1)}

AllConsultedCompleted ==
    \A pair \in ConsultedPairs :
        pair \in DOMAIN checkpoints /\ checkpoints[pair].completed

\* C21: when every checkpoint the planner consults is marked completed, the
\* plan has no batch and no work item, totalBatches is 0, and totalWorkers
\* is still ceil(N / P).
C21_AllCompletedEmptyPlan ==
    (NormalPlanDone /\ AllConsultedCompleted) =>
        /\ plan[1].batches = <<>>
        /\ PlanItems(plan[1]) = <<>>
        /\ plan[1].totalBatches = 0
        /\ plan[1].totalWorkers = CeilOf(total_comments, max_page_size)

\* C21 witness: three pages, all three completed, nothing emitted
C21_Witness ==
    /\ NormalPlanDone
    /\ AllConsultedCompleted
    /\ CeilOf(total_comments, max_page_size) = 3
    /\ plan[1].totalWorkers = 3
    /\ plan[1].totalBatches = 0

\* the plan of the worked example: 520 records, pages of 250, 2 workers per batch
ExamplePlan == calculate_work_batches(EmptyStore, 520, 2, 250, <<>>)

ExampleAsStated ==
    /\ Len(ExamplePlan.batches) = 2
    /\ [i \in 1..2 |-> ExamplePlan.batches[1].workers[i].pageNumber] = <<1, 2>>
    /\ [i \in 1..2 |-> ExamplePlan.batches[1].workers[i].workerId] = <<0, 1>>
    /\ [i \in 1..1 |-> ExamplePlan.batches[2].workers[i].pageNumber] = <<3>>
    /\ [i \in 1..1 |-> ExamplePlan.batches[2].workers[i].workerId] = <<2>>
    /\ Len(ExamplePlan.batches[1].workers) = 2
    /\ Len(ExamplePlan.batches[2].workers) = 1
    /\ SeqMap(LAMBDA item : item.expectedComments, PlanItems(ExamplePlan)) = <<250, 250, 20>>

\* the batches of a plan cut the emission order into groups of at most
\* per_batch items of one set; a group smaller than per_batch ends its set
BatchesAreGroups(p, per_batch) ==
    \A b \in 1..Len(p.batches) :
        LET batch == p.batches[b]
        IN /\ batch.batchId = b - 1
           /\ Len(batch.workers) \in 1..per_batch
           /\ \A i \in 1..Len(batch.workers) :
                 /\ batch.workers[i].setNumber = batch.setNumber
                 /\ batch.workers[i].batchId = batch.batchId
           /\ (Len(batch.workers) < per_batch /\ b < Len(p.batches))
                 => p.batches[b + 1].setNumber # batch.setNumber

\* C22: in normal mode with an empty checkpoint store, item k of the
\* emission order (k = 0, 1, ...) has workerId k, belongs to set k div 20 + 1
\* and has page number k mod 20 + 1, so the pages of a set are 1..pagesNeeded
\* ascending without gaps and never above 20; batches are consecutive groups
\* of W items of one set, the last batch of a set holding the remainder;
\* expectedComments is P except on the final page of the final set, where it
\* is the exact remainder; and the worked example yields what is stated.
C22_EmptyStorePlanShape ==
    (NormalPlanDone /\ checkpoints = EmptyStore) =>
        LET items == PlanItems(plan[1])
            n     == CeilOf(total_comments, max_page_size)
        IN /\ Len(items) = n
           /\ \A k \in 1..Len(items) :
                 /\ items[k].workerId = k - 1
                 /\ items[k].setNumber = ((k - 1) \div max_pages_per_set) + 1
                 /\ items[k].pageNumber = ((k - 1) % max_pages_per_set) + 1
                 /\ items[k].pageNumber <= max_pages_per_set
                 /\ items[k].expectedComments =
                       IF k = n THEN total_comments - ((n - 1) * max_page_size)
                       ELSE max_page_size
           /\ BatchesAreGroups(plan[1], workers_per_batch)
           /\ ExampleAsStated

\* C22 witness: 21 pages of one record, two workers per batch: ten full
\* batches and one batch of page 1 of the second set
C22_Witness ==
    /\ NormalPlanDone
    /\ checkpoints = EmptyStore
    /\ workers_per_batch = 2
    /\ Len(PlanItems(plan[1])) = 21
    /\ plan[1].totalBatches = 11
    /\ Len(plan[1].batches[10].workers) = 2
    /\ Len(plan[1].batches[11].workers) = 1
    /\ plan[1].batches[11].workers[1].pageNumber = 1

----------------------------------------------------------------------------
(* Claims about the resume marker and the detail fetches of a worker *)

WorkerReturned == wk_out # <<>> /\ wk_out[1].raised = "none"

\* the largest modification marker among the records of a sequence, none
\* when no record carries one
MaxMarker(records) ==
    LET dated == {k \in 1..Len(records) : records[k].date # <<>>}
    IN IF dated = {} THEN <<>>
       ELSE <<SetMax({records[k].date[1] : k \in dated})>>

\* C23: for every page number, the lastProcessedDate a worker returns is the
\* maximum modification marker among the records whose details it fetched in
\* that invocation.
C23_MarkerIsMaxFetched ==
    (WorkerReturned /\ wk_out[1].fetched # <<>>) =>
        wk_out[1].result[1].lastProcessedDate = MaxMarker(wk_out[1].fetched)

\* C24: a worker that was given a resume marker returns a marker, and not an
\* earlier one, whether the page was fetched, empty or rate-limited.
C24_MarkerNeverBackwards ==
    (WorkerReturned /\ wk_event.lastModifiedDate # <<>>) =>
        /\ wk_out[1].result[1].lastProcessedDate # <<>>
        /\ wk_out[1].result[1].lastProcessedDate[1] >= wk_event.lastModifiedDate[1]

\* the log entries of the detail fetches: the ones after the listing request
DetailLog ==
    SubSeq(WorkerLog, Len(make_request(wk_script.listing).tried) + 1, Len(WorkerLog))

DetailAttempted(k) ==
    \E e \in 1..Len(DetailLog) : DetailLog[e].target[1] = wk_script.data[k].id

DetailFailed(k) ==
    DetailAttempted(k) /\ make_request(wk_script.details[k]).outcome # "ok"

\* C25: when the detail fetch of a record is rate-limited or fails, no detail
\* fetch of a later record of the page is attempted, and the records fetched
\* before are the rows of the shard the worker writes.
C25_DetailFailureTruncates ==
    (WorkerReturned /\ wk_script.save = "ok") =>
        \A k \in 1..Len(wk_script.data) :
            DetailFailed(k) =>
                /\ \A j \in (k + 1)..Len(wk_script.data) : ~DetailAttempted(j)
                /\ wk_out[1].fetched =
                      SelectSeq(SubSeq(wk_script.data, 1, k - 1),
                                LAMBDA r : make_request(wk_script.details[r.id]).outcome = "ok")
                /\ wk_out[1].fetched # <<>> =>
                      \E o \in blobs : /\ o.key.kind = "comments"
                                       /\ o.body.rows = SeqMap(to_csv_row, wk_out[1].fetched)

----------------------------------------------------------------------------
(* Claims about _make_request *)

RequestMade == req_out # <<>>

\* the transient failures among the attempts made
TransientFailures(tried) == {k \in 1..Len(tried) : tried[k] = "HTTPError"}

\* C26: a 429 response ends the call at once: it is the last attempt made,
\* the call raises RateLimitReached, and no wait follows it (the waits slept
\* are those of the transient failures before it), however many retries
\* were used before.
C26_RateLimitNotRetried ==
    RequestMade =>
        \A k \in 1..Len(req_out[1].tried) :
            req_out[1].tried[k] = "429" =>
                /\ k = Len(req_out[1].tried)
                /\ req_out[1].outcome = "RateLimitReached"
                /\ Len(req_out[1].waits) = k - 1
                /\ TransientFailures(req_out[1].tried) = 1..(k - 1)

\* C26 witness: a 429 on the last attempt allowed, after two retries
C26_Witness ==
    /\ RequestMade
    /\ req_out[1].tried = <<"HTTPError", "HTTPError", "429">>
    /\ req_out[1].outcome = "RateLimitReached"
    /\ req_out[1].waits = <<1, 2>>

\* C27: a call makes at most max_retries attempts; every attempt before the
\* last one made was a transient failure, and the wait slept after the k-th
\* of them is 2^(k-1) seconds; after a transient failure on attempt
\* max_retries the call raises without waiting again.
C27_BoundedBackoff ==
    RequestMade =>
        LET tried == req_out[1].tried
            waits == req_out[1].waits
        IN /\ Len(tried) \in 1..max_retries
           /\ tried = SubSeq(req_responses, 1, Len(tried))
           /\ \A k \in 1..(Len(tried) - 1) : tried[k] = "HTTPError"
           /\ waits = [k \in 1..(Len(tried) - 1) |-> 2 ^ (k - 1)]
           /\ \A k \in 1..Len(waits) : waits[k] \in {1, 2}
           /\ tried[Len(tried)] = "HTTPError" =>
                 /\ Len(tried) = max_retries
                 /\ req_out[1].outcome = "HTTPError"
           /\ req_out[1].outcome \in {"ok", "RateLimitReached", "Exception", "HTTPError"}

\* C27 witness: three transient failures: waits of 1 and 2 seconds, then the
\* error is raised
C27_Witness ==
    /\ RequestMade
    /\ req_out[1].tried = <<"HTTPError", "HTTPError", "HTTPError">>
    /\ req_out[1].waits = <<1, 2>>
    /\ req_out[1].outcome = "HTTPError"

----------------------------------------------------------------------------
(* Claims about invalid planner input *)

\* C28: calculate_work_batches called in normal mode with a negative
\* totalRecords returns no plan.
C28_NegativeTotalFails ==
    total_comments < 0 => plan = <<>>

----------------------------------------------------------------------------
(* Claims about the keys of concurrent workers *)

\* the items of a batch differ pairwise in (workerId, pageNumber); the model
\* holds one document, so the documentId is the same throughout
BatchTriplesDistinct(batch) ==
    \A i, j \in 1..Len(batch.workers) :
        (/\ batch.workers[i].workerId = batch.workers[j].workerId
         /\ batch.workers[i].pageNumber = batch.workers[j].pageNumber) => i = j

\* the workers of the dispatched batch that returned after saving a shard
SavedResults ==
    {k \in 1..Len(batchResults) :
        batchResults[k] # <<>> /\ batchResults[k][1].commentsFile # <<>>}

MetadataKeyOf(result) ==
    MetadataKey(result.workerId, result.pageNumber, result.metadata[1].completionTime)

C30_IdsAndPagesUnique ==
    NormalPlanDone =>
        \A i, j \in 1..Len(PlanItems(plan[1])) :
            i # j => /\ PlanItems(plan[1])[i].workerId # PlanItems(plan[1])[j].workerId
                     /\ PlanItems(plan[1])[i].pageNumber # PlanItems(plan[1])[j].pageNumber

----------------------------------------------------------------------------
(* Claims about repeated planning and the structure of a plan *)

C32_BatchStructure ==
    NormalPlanDone =>
        /\ plan[1].totalBatches = Len(plan[1].batches)
        /\ \A b \in 1..Len(plan[1].batches) :
              LET batch == plan[1].batches[b]
              IN /\ batch.batchId = b - 1
                 /\ Len(batch.workers) \in 1..workers_per_batch
                 /\ batch.expectedWorkers = Len(batch.workers)
                 /\ \A k \in 1..Len(batch.workers) :
                       /\ batch.workers[k].batchId = batch.batchId
                       /\ batch.workers[k].setNumber = batch.setNumber

\* C32 witness: the batch of page 1 was skipped as completed; the first
\* batch of the plan is the one of page 2 and has batchId 0, and the plan
\* reaches the second set
C32_Witness ==
    /\ NormalPlanDone
    /\ workers_per_batch = 1
    /\ <<0, 1>> \in DOMAIN checkpoints
    /\ checkpoints[<<0, 1>>].completed
    /\ Len(plan[1].batches) >= max_pages_per_set
    /\ plan[1].batches[1].batchId = 0
    /\ plan[1].batches[1].workers[1].pageNumber = 2
    /\ plan[1].batches[Len(plan[1].batches)].setNumber = 2

\* C33: in normal mode an item emitted for a page whose checkpoint exists
\* and is not marked completed has hasCheckpoint = true and the offset stored
\* in that checkpoint; an item emitted for a page without a checkpoint has
\* neither.
C33_ItemCarriesCheckpoint ==
    NormalPlanDone =>
        \A k \in 1..Len(PlanItems(plan[1])) :
            LET item == PlanItems(plan[1])[k]
                key  == <<item.workerId, item.pageNumber>>
            IN IF key \in DOMAIN checkpoints
               THEN /\ ~checkpoints[key].completed
                    /\ item.hasCheckpoint
                    /\ item.commentOffset = <<checkpoints[key].comment_offset>>
               ELSE /\ ~item.hasCheckpoint
                    /\ item.commentOffset = <<>>

\* C33 witness: page 1 is emitted with the offset of its unfinished
\* checkpoint, page 2 without one
C33_Witness ==
    /\ NormalPlanDone
    /\ <<0, 1>> \in DOMAIN checkpoints
    /\ ~checkpoints[<<0, 1>>].completed
    /\ <<1, 2>> \notin DOMAIN checkpoints
    /\ Len(PlanItems(plan[1])) >= 2
    /\ PlanItems(plan[1])[1].hasCheckpoint
    /\ PlanItems(plan[1])[1].commentOffset = <<checkpoints[<<0, 1>>].comment_offset>>
    /\ ~PlanItems(plan[1])[2].hasCheckpoint

----------------------------------------------------------------------------
(* Claims about the checkpoint table *)

\* the read of (workerId, pageNumber) finds no item or raises
NoProgressRead(key) ==
    key \notin DOMAIN checkpoints \/ checkpoints[key].read_fails

SkippedAsCompleted(item) ==
    /\ ~NoProgressRead(<<item.workerId, item.pageNumber>>)
    /\ checkpoints[<<item.workerId, item.pageNumber>>].completed

\* C34: a missing checkpoint and a failing checkpoint read both make
\* get_checkpoint return None, and the planner emits that page as a fresh
\* work item without checkpoint fields; a plan is returned whatever the
\* table holds and whichever reads fail: it consists of the items of the
\* empty-table plan except those whose checkpoint was read as completed.
C34_UnreadableIsNoProgress ==
    NormalPlanDone =>
        LET base  == PlanItems(calculate_work_batches(EmptyStore, total_comments,
                                   workers_per_batch, max_page_size, <<>>))
            items == PlanItems(plan[1])
        IN /\ SeqMap(ItemKey, items) =
                 SeqMap(ItemKey, SelectSeq(base, LAMBDA item : ~SkippedAsCompleted(item)))
           /\ \A k \in 1..Len(items) :
                 NoProgressRead(<<items[k].workerId, items[k].pageNumber>>) =>
                    /\ get_checkpoint(checkpoints, items[k].workerId, items[k].pageNumber) = <<>>
                    /\ ~items[k].hasCheckpoint
                    /\ items[k].commentOffset = <<>>
                    /\ items[k].expectedComments = base[items[k].workerId + 1].expectedComments

\* C34 witness: the completed checkpoint of page 1 cannot be read and page 2
\* has no checkpoint; both pages are emitted as fresh items
C34_Witness ==
    /\ NormalPlanDone
    /\ <<0, 1>> \in DOMAIN checkpoints
    /\ checkpoints[<<0, 1>>].completed
    /\ checkpoints[<<0, 1>>].read_fails
    /\ <<1, 2>> \notin DOMAIN checkpoints
    /\ Len(PlanItems(plan[1])) >= 2
    /\ PlanItems(plan[1])[1].pageNumber = 1
    /\ ~PlanItems(plan[1])[1].hasCheckpoint
    /\ PlanItems(plan[1])[2].pageNumber = 2
    /\ ~PlanItems(plan[1])[2].hasCheckpoint

----------------------------------------------------------------------------
(* Claims about what a worker reports and persists *)

\* the results the workers of the dispatched batch have returned
ReturnedResults == {batchResults[k][1] : k \in {j \in 1..Len(batchResults) : batchResults[j] # <<>>}}

ShardsOfPage(worker_id, page) ==
    {o \in blobs : o.key.kind \in ShardKinds /\ o.key.worker = worker_id /\ o.key.page = page}

\* C35: every WorkerResult has isComplete = not rateLimited; a worker that
\* returns rateLimited = true has saved nothing (no shard, no metadata
\* record); so no persisted metadata record has rateLimited = true, no shard
\* key carries the rate-limited suffix, and the rate-limited list of the run
\* metadata is empty.
C35_RateLimitedSavesNothing ==
    /\ \A r \in ReturnedResults :
          /\ r.rateLimited \in {"true", "false"}
          /\ r.isComplete = BoolJson(r.rateLimited = "false")
          /\ r.rateLimited = "true" =>
                /\ r.commentsFile = <<>>
                /\ r.attachmentsFile = <<>>
                /\ r.metadata = <<>>
                /\ r.processedComments = 0
                /\ ShardsOfPage(r.workerId, r.pageNumber) = {}
    /\ \A o \in blobs :
          /\ o.key.kind \in ShardKinds => ~o.key.rate_limited
          /\ o.key.kind = "metadata" => ~o.body.rateLimited
          /\ o.key.kind = "final_metadata" => o.body.rateLimitedWorkers = <<>>

\* C35 witness: a run with a reprocessing round (a worker returned
\* rateLimited = true) that ended with run metadata counting comments
C35_Witness ==
    /\ runState = "DONE"
    /\ rounds >= 1
    /\ \E o \in blobs : /\ o.key.kind = "final_metadata"
                        /\ o.body.totalComments > 0
                        /\ o.body.rateLimitedWorkers = <<>>

\* C36: a worker returns isComplete = true only if processedComments equals
\* the number of summary records the page listing returned.
C36_CompleteMeansAllPersisted ==
    (WorkerReturned /\ wk_out[1].result[1].isComplete = "true"
        /\ make_request(wk_script.listing).outcome = "ok") =>
        wk_out[1].result[1].processedComments = Len(wk_script.data)

----------------------------------------------------------------------------
(* Claims about the counts, failures and cleanup of the Aggregator *)

\* the data rows of the artifact of a kind in a store, none when the store
\* holds no such artifact
ArtifactRows(store, kind) ==
    IF \E o \in store : o.key.kind = kind
    THEN (CHOOSE o \in store : o.key.kind = kind).body.rows
    ELSE <<>>

\* C37: the row counts an invocation reports (totalComments,
\* totalAttachments, as returned by combine_csv_files) are the numbers of
\* data rows of the consolidated artifacts it wrote.
C37_RowCountIsRowsWritten ==
    \A n \in 1..Len(agg_outs) :
        ~agg_outs[n].out.raised =>
            /\ agg_outs[n].out.result[1].totalComments
                  = Len(ArtifactRows(agg_outs[n].out.store, "final_comments"))
            /\ agg_outs[n].out.result[1].totalAttachments
                  = Len(ArtifactRows(agg_outs[n].out.store, "final_attachments"))

\* C38: an invocation that fails leaves the blob store as it found it.
C38_FailureLeavesStore ==
    \A n \in 1..Len(agg_outs) :
        agg_outs[n].out.raised => agg_outs[n].out.store = agg_outs[n].start

\* the comment ids held by the comments shards of a store
ShardCommentIds(store) ==
    UNION {{o.body.rows[r][ColumnIndex(o.body.header, "comment_id")] :
              r \in 1..Len(o.body.rows)} :
           o \in {q \in store : q.key.kind = "comments"}}

\* the comment ids of the consolidated comments artifact of a store
ArtifactCommentIds(store) ==
    UNION {{o.body.rows[r][ColumnIndex(o.body.header, "comment_id")] :
              r \in 1..Len(o.body.rows)} :
           o \in {q \in store : q.key.kind = "final_comments"}}

\* C39: after an aggregation with cleanup, every record that was in a
\* comments shard is in the consolidated comments artifact.
C39_CleanupLosesNothing ==
    \A n \in 1..Len(agg_outs) :
        (~agg_outs[n].out.raised /\ CleanupFiles(agg_event)) =>
            ShardCommentIds(agg_outs[n].start) \subseteq ArtifactCommentIds(agg_outs[n].out.store)

----------------------------------------------------------------------------
(* Claims about the workers per batch *)

PlannerEnded == plan # <<>> \/ failCause # "none"

\* C40: for every configured API rate limit, calculate_workers_per_batch
\* returns a value between 1 and 4 with workersPerBatch * 250 + 50 <= rate
\* limit, and normal-mode planning with that value returns a plan that
\* covers all N records: it does not divide by zero and does not return zero
\* batches for N > 0.
C40_WorkersPerBatchUsable ==
    PlannerEnded =>
        /\ calculate_workers_per_batch(api_rate_limit) \in 1..4
        /\ (calculate_workers_per_batch(api_rate_limit) * 250) + 50 <= api_rate_limit
        /\ failCause = "none"
        /\ plan # <<>>
        /\ total_comments > 0 => plan[1].totalBatches > 0
        /\ SumSeq([i \in 1..Len(PlanItems(plan[1])) |->
                      PlanItems(plan[1])[i].expectedComments]) = total_comments

====
